---------------------------- MODULE Spec2Model ----------------------------
(***************************************************************************)
(* Model of btrfs-snapshot-to-swift: the snapshot lineage resolver         *)
(* (business.compute_snapshot_to_archive), the local preparation pipeline  *)
(* (business.PrepareContent) and the segmented upload (storage.upload).    *)
(***************************************************************************)
EXTENDS Integers, Sequences, FiniteSets, TLC

(***************************************************************************)
(* Bounds of the model.                                                    *)
(***************************************************************************)
\* number of distinct snapshots the lists are drawn from
NumSnapshots == 3
\* longest local / archived list
MaxLen == 3
\* chunks a pipe holds before a write to it blocks
PipeCapacity == 1
\* chunks of the largest stream: one more than two pipes hold
MaxData == 2 * PipeCapacity + 1
\* results swift.upload reports in a run of the whole program before the
\* model stops counting
MaxRunResults == 1
\* concurrent runs preparing the same unit into the same directory
NumRuns == 2
\* progress lines the meter prints before the model stops counting
MaxLines == 2
\* chunks a stage writes to the target file before the model stops counting
MaxChunks == 2
\* results swift.upload reports before its stream ends
MaxResults == 3
\* largest segment, in units of the model
MaxSegmentSize == 2
\* longest name given to _sanitize_storage_filename
MaxStrLen == 4
\* longest string given to _compute_common_prefix
MaxWordLen == 2
\* names on one page of a container listing
PageSize == 2

(***************************************************************************)
(* Values.  A Snapshot is a frozen dataclass compared by value; the model  *)
(* names each distinct value by a number, None by 0.                       *)
(***************************************************************************)
None == 0
Snapshots == 1..NumSnapshots
Entries == Snapshots \cup {None}

SeqsUpTo(S, n) == UNION {[1..k -> S] : k \in 0..n}

Range(s) == {s[i] : i \in DOMAIN s}

Min(a, b) == IF a < b THEN a ELSE b

\* the plain Snapshot as a unit of work
SnapshotUnit(s) == [kind |-> "Snapshot", snapshot |-> s]

\* SnapshotsDifference(parent, snapshot)
SnapshotsDifference(p, s) ==
    [kind |-> "SnapshotsDifference", parent |-> p, snapshot |-> s]

VARIABLES
    \* ---- compute_snapshot_to_archive, a generator ----
    snapshots,      \* argument: local snapshots
    archived,       \* argument: archived snapshots
    gen_pc,         \* "created", "suspended" (at a yield), "exhausted", "raised"
    pending,        \* units the running `yield from` has still to yield
    yielded,        \* units the consumer has received so far
    raised,         \* "none" or the exception that ended the generator
    \* ---- PrepareContent: the host, the arguments, the runs ----
    dir_exists,     \* os.path.isdir(dirname)
    which_btrfs,    \* shutil.which("btrfs") found it
    which_pv,       \* shutil.which("pv") found it
    which_age,      \* shutil.which("age") found it
    content,        \* argument: the unit to prepare
    age_recipient,  \* argument: TRUE when a recipient is given, FALSE for None
    target,         \* the file at <dirname>/<basename>
    prep_pc,        \* per run: position in __init__ / prepare
    prep_err,       \* per run: "none" or the exception raised
    procs,          \* per run: the send, age and pv processes
    lines,          \* per run: progress lines yielded so far
    \* ---- storage.upload, a generator ----
    is_file,        \* os.path.isfile(filep)
    container_exists, \* the container is there: swift.stat succeeds
    up_pc,          \* "created", "suspended" (at a yield), "running" (in the
                    \* for loop), "exhausted", "raised"
    up_raised,      \* "none" or the exception that ended the generator
    will_fail,      \* local variable
    transfered,     \* local variable
    progress,       \* values the consumer has received so far
    results,        \* results swift.upload has reported so far
    stream,         \* swift.upload's results: "none" (not called), "open", "ended"
    swift_calls,    \* calls made on the SwiftService, in order
    \* ---- storage._sanitize_storage_filename, called on two names ----
    base,           \* argument of the first call
    other,          \* argument of the second call
    sanitized,      \* <<>> before the calls, then the two results
    \* ---- storage.compute_storage_filename ----
    nm_snapshot,    \* the snapshot to name
    nm_parents,     \* two parents the snapshot is compared with
    nm_names,       \* the calls made so far: pairs <<argument, result>>
    \* ---- storage._compute_common_prefix ----
    str_list,       \* argument
    cp_pc,          \* "created", "returned"
    rest,           \* the value returned
    \* ---- storage.only_stored ----
    ro_snapshots,   \* argument: the local snapshots
    catalog,        \* the names of the objects of the container
    os_pc,          \* "created", "listing", "returned", "raised"
    os_raised,      \* "none" or the exception that ended the call
    list_prefix,    \* the prefix given to swift.list
    pages,          \* the pages swift.list has produced so far
    container_item_names, \* local variable
    os_result,      \* the value returned
    \* ---- main.process, run after run on the same snapshots ----
    rd_snapshots,   \* the local snapshots
    rd_archived,    \* the archived snapshots
    rd_first,       \* how many snapshots were archived before the first run
    rd_pc,          \* "start" (before the resolver is called), "resolved"
    rd_units,       \* what the resolver gave: [error, units]
    rd_previous,    \* what it gave in the run before
    rd_rounds,      \* runs that archived a unit
    \* ---- the pipes between the stages of prepare ----
    pl_todo,        \* chunks btrfs send has still to write
    pl_pipe,        \* per pipe: the chunks written and not yet read
    pl_closed,      \* the Popen objects have closed their ends of the pipes
    \* ---- main.main and main.process: one run of the program ----
    main_pc,        \* "start", "ask_preparing", "preparing", "ask_uploading",
                    \* "uploading", "exited"
    dry_run,        \* ctx.dry_run
    upload_size_limit, \* ctx.upload_size_limit
    filesize,       \* local variable of process; -1 before it is assigned
    status,         \* local variable of main, given to sys.exit
    main_raised,    \* "none" or the exception that left process
    uploaded_msg,   \* the line "Uploaded ..." has been printed
    interrupted     \* a KeyboardInterrupt was raised in the run

resolverVars == <<snapshots, archived, gen_pc, pending, yielded, raised>>

hostVars == <<dir_exists, which_btrfs, which_pv, which_age>>

prepareVars == <<dir_exists, which_btrfs, which_pv, which_age, content,
                 age_recipient, target, prep_pc, prep_err, procs, lines>>

uploadVars == <<is_file, container_exists, up_pc, up_raised, will_fail,
                transfered, progress, results, stream, swift_calls>>

sanitizeVars == <<base, other, sanitized>>

namingVars == <<nm_snapshot, nm_parents, nm_names>>

prefixVars == <<str_list, cp_pc, rest>>

storedVars == <<ro_snapshots, catalog, os_pc, os_raised, list_prefix, pages,
                container_item_names, os_result>>

roundsVars == <<rd_snapshots, rd_archived, rd_first, rd_pc, rd_units,
                rd_previous, rd_rounds>>

pipelineVars == <<pl_todo, pl_pipe, pl_closed>>

processVars == <<main_pc, dry_run, upload_size_limit, filesize, status,
                 main_raised, uploaded_msg, interrupted>>

\* the state of the runs of the program as a whole
runVars == <<roundsVars, pipelineVars, processVars>>

vars == <<resolverVars, prepareVars, uploadVars, sanitizeVars, namingVars,
          prefixVars, storedVars, runVars>>

\* what the steps of one component leave alone
otherThanResolver ==
    <<prepareVars, uploadVars, sanitizeVars, namingVars, prefixVars,
      storedVars,
      runVars>>
otherThanPrepare ==
    <<resolverVars, uploadVars, sanitizeVars, namingVars, prefixVars,
      storedVars,
      runVars>>
otherThanUpload ==
    <<resolverVars, prepareVars, sanitizeVars, namingVars, prefixVars,
      storedVars,
      runVars>>
otherThanSanitize ==
    <<resolverVars, prepareVars, uploadVars, namingVars, prefixVars,
      storedVars,
      runVars>>
otherThanNaming ==
    <<resolverVars, prepareVars, uploadVars, sanitizeVars, prefixVars,
      storedVars,
      runVars>>
otherThanPrefix ==
    <<resolverVars, prepareVars, uploadVars, sanitizeVars, namingVars,
      storedVars,
      runVars>>
otherThanStored ==
    <<resolverVars, prepareVars, uploadVars, sanitizeVars, namingVars,
      prefixVars,
      runVars>>

\* no resolution is going on
ResolverIdle ==
    /\ snapshots = <<>> /\ archived = <<>> /\ gen_pc = "created"
    /\ pending = <<>> /\ yielded = <<>> /\ raised = "none"

\* no preparation is going on
PrepareIdle ==
    /\ dir_exists = TRUE /\ which_btrfs = TRUE
    /\ which_pv = TRUE /\ which_age = TRUE
    /\ content = SnapshotUnit(1)
    /\ age_recipient = FALSE
    /\ target = [exists |-> FALSE, data |-> 0, creator |-> 0]
    /\ prep_pc = <<>> /\ prep_err = <<>> /\ procs = <<>> /\ lines = <<>>

\* no upload is going on
UploadIdle ==
    /\ is_file = TRUE /\ container_exists = TRUE
    /\ up_pc = "created" /\ up_raised = "none"
    /\ will_fail = TRUE /\ transfered = 0
    /\ progress = <<>> /\ results = <<>>
    /\ stream = "none" /\ swift_calls = <<>>

\* no name is being sanitized
SanitizeIdle == base = <<>> /\ other = <<>> /\ sanitized = <<>>

\* no unit is being named
NamingIdle == nm_snapshot = 1 /\ nm_parents = <<1, 1>> /\ nm_names = {}

\* no common prefix is being computed
PrefixIdle == str_list = <<>> /\ cp_pc = "created" /\ rest = <<>>

\* no listing is going on
StoredIdle ==
    /\ ro_snapshots = <<>> /\ catalog = {}
    /\ os_pc = "created" /\ os_raised = "none"
    /\ list_prefix = <<>> /\ pages = <<>>
    /\ container_item_names = <<>> /\ os_result = <<>>

\* no run of the program is going on
RoundsIdle ==
    /\ rd_snapshots = <<>> /\ rd_archived = <<>> /\ rd_first = 0
    /\ rd_pc = "start" /\ rd_units = [error |-> "none", units |-> <<>>]
    /\ rd_previous = <<>> /\ rd_rounds = 0

\* the pipe over which a stage hands its output to the next
Pipes == {"send.stdout", "age.stdout"}

\* no stage is writing to a pipe
PipelineIdle ==
    /\ pl_todo = 0 /\ pl_pipe = [p \in Pipes |-> 0] /\ pl_closed = FALSE

\* main has not been called
ProcessIdle ==
    /\ main_pc = "start" /\ dry_run = FALSE /\ upload_size_limit = 0
    /\ filesize = -1 /\ status = 0 /\ main_raised = "none"
    /\ uploaded_msg = FALSE /\ interrupted = FALSE

RunIdle == RoundsIdle /\ PipelineIdle /\ ProcessIdle

\* none of the functions of storage.py other than upload is running
StorageIdle == SanitizeIdle /\ NamingIdle /\ PrefixIdle /\ StoredIdle

(***************************************************************************)
(* business.compute_snapshot_to_archive                                    *)
(***************************************************************************)

\* mutant: the None test is lost
sane_check_no_none(snaps) ==
    IF Len(snaps) # Cardinality(Range(snaps)) THEN "ValueError" ELSE "ok"

\* sane_check: "ValueError" where the code raises it, "ok" otherwise
sane_check(snaps) ==
    IF Len(snaps) # Cardinality(Range(snaps)) THEN "ValueError"
    ELSE IF None \in Range(snaps) THEN "ValueError"
    ELSE "ok"

\* mutant: every element becomes a difference against the previous one
snapshot_or_diff_always_diff(parent, snapshot) ==
    SnapshotsDifference(parent, snapshot)

snapshot_or_diff(parent, snapshot) ==
    IF parent = None THEN SnapshotUnit(snapshot)
    ELSE SnapshotsDifference(parent, snapshot)

RECURSIVE chain_loop(_, _, _, _)
\* the for loop of chain_of: i is the position, parent the loop variable
chain_loop(snaps, i, parent, chain) ==
    IF i > Len(snaps) THEN chain
    ELSE chain_loop(snaps, i + 1, snaps[i],
                    Append(chain, snapshot_or_diff(parent, snaps[i])))

\* mutant: `parent = s` comes before the append: each unit is the difference
\* of a snapshot with itself
chain_of_self_parent(snaps) ==
    [i \in 1..Len(snaps) |-> snapshot_or_diff(snaps[i], snaps[i])]

\* mutant: parent is never advanced, each difference is against the first
chain_of_fixed_parent(snaps) ==
    [i \in 1..Len(snaps) |->
        snapshot_or_diff(IF i = 1 THEN None ELSE snaps[1], snaps[i])]

chain_of(snaps) == chain_loop(snaps, 1, None, <<>>)

\* archived[i] if i < len(archived) else None, for i in range(len(snapshots))
corresponding_archives(snaps, arch) ==
    [i \in 1..Len(snaps) |-> IF i <= Len(arch) THEN arch[i] ELSE None]

RECURSIVE zip_loop_accumulate(_, _, _, _)
\* mutant: `chain = [a]` written as `chain += [a]`
zip_loop_accumulate(snaps, corr, i, chain) ==
    IF i > Len(snaps) THEN [error |-> "none", chain |-> chain]
    ELSE IF corr[i] # None /\ snaps[i] # corr[i]
         THEN [error |-> "UnexpectedSnapshotStorageLayout", chain |-> chain]
    ELSE IF corr[i] # None
         THEN zip_loop_accumulate(snaps, corr, i + 1, Append(chain, corr[i]))
    ELSE [error |-> "none", chain |-> chain \o SubSeq(snaps, i, Len(snaps))]

RECURSIVE zip_loop_no_compare(_, _, _, _)
\* mutant: the comparison of s with a is lost
zip_loop_no_compare(snaps, corr, i, chain) ==
    IF i > Len(snaps) THEN [error |-> "none", chain |-> chain]
    ELSE IF corr[i] # None
         THEN zip_loop_no_compare(snaps, corr, i + 1, <<corr[i]>>)
    ELSE [error |-> "none", chain |-> chain \o SubSeq(snaps, i, Len(snaps))]

RECURSIVE zip_loop(_, _, _, _)
\* the for loop over zip(snapshots, corresponding_archives)
zip_loop(snaps, corr, i, chain) ==
    IF i > Len(snaps) THEN [error |-> "none", chain |-> chain]
    ELSE IF corr[i] # None /\ snaps[i] # corr[i]
         THEN [error |-> "UnexpectedSnapshotStorageLayout", chain |-> chain]
    ELSE IF corr[i] # None
         THEN zip_loop(snaps, corr, i + 1, <<corr[i]>>)
    ELSE [error |-> "none", chain |-> chain \o SubSeq(snaps, i, Len(snaps))]

\* the body of the generator, run up to its end: the exception it raises and
\* the units it yields before
compute_snapshot_to_archive(snaps, arch) ==
    IF sane_check(snaps) # "ok" THEN [error |-> "ValueError", units |-> <<>>]
    ELSE IF sane_check(arch) # "ok" THEN [error |-> "ValueError", units |-> <<>>]
    ELSE IF Len(snaps) = 0 THEN [error |-> "none", units |-> <<>>]
    ELSE IF Len(arch) = 0 THEN [error |-> "none", units |-> chain_of(snaps)]
    ELSE IF Len(snaps) = Len(arch) THEN [error |-> "none", units |-> <<>>]
    ELSE LET r == zip_loop(snaps, corresponding_archives(snaps, arch), 1, <<>>)
         IN  IF r.error # "none" THEN [error |-> r.error, units |-> <<>>]
             ELSE [error |-> "none", units |-> Tail(chain_of(r.chain))]

ResolverInit ==
    /\ snapshots \in SeqsUpTo(Entries, MaxLen)
    /\ archived \in SeqsUpTo(Entries, MaxLen)
    /\ gen_pc = "created"
    /\ pending = <<>>
    /\ yielded = <<>>
    /\ raised = "none"

\* the consumer's first next(): the body runs to the first yield, to its end
\* or to the exception
ResolverStart ==
    /\ gen_pc = "created"
    /\ LET r == compute_snapshot_to_archive(snapshots, archived) IN
         \/ /\ r.error # "none"
            /\ gen_pc' = "raised"
            /\ raised' = r.error
            /\ UNCHANGED <<pending, yielded>>
         \/ /\ r.error = "none"
            /\ r.units = <<>>
            /\ gen_pc' = "exhausted"
            /\ UNCHANGED <<pending, yielded, raised>>
         \/ /\ r.error = "none"
            /\ r.units # <<>>
            /\ gen_pc' = "suspended"
            /\ yielded' = <<Head(r.units)>>
            /\ pending' = Tail(r.units)
            /\ UNCHANGED raised
    /\ UNCHANGED <<snapshots, archived>>
    /\ UNCHANGED otherThanResolver

\* a later next(): the next unit of the chain, or StopIteration
ResolverResume ==
    /\ gen_pc = "suspended"
    /\ \/ /\ pending # <<>>
          /\ yielded' = Append(yielded, Head(pending))
          /\ pending' = Tail(pending)
          /\ UNCHANGED gen_pc
       \/ /\ pending = <<>>
          /\ gen_pc' = "exhausted"
          /\ UNCHANGED <<pending, yielded>>
    /\ UNCHANGED <<snapshots, archived, raised>>
    /\ UNCHANGED otherThanResolver

ResolverNext == ResolverStart \/ ResolverResume

InitResolver == ResolverInit /\ PrepareIdle /\ UploadIdle
    /\ StorageIdle /\ RunIdle

SpecResolver == InitResolver /\ [][ResolverNext]_vars

(***************************************************************************)
(* Claims about compute_snapshot_to_archive, checked under SpecResolver.   *)
(***************************************************************************)

\* a list the resolver accepts: no duplicate, no None
Sane(snaps) == Len(snaps) = Cardinality(Range(snaps)) /\ None \notin Range(snaps)

\* some position both lists have holds different snapshots
MismatchAtPairedPosition ==
    \E i \in 1..Min(Len(snapshots), Len(archived)) : snapshots[i] # archived[i]

\* archived is snapshots[0..k-1] with 1 <= k < len(snapshots)
ProperNonEmptyPrefix ==
    /\ Len(archived) >= 1
    /\ Len(archived) < Len(snapshots)
    /\ archived = SubSeq(snapshots, 1, Len(archived))

\* every local snapshot has an equal archived one at its position
EveryLocalMatched ==
    /\ Len(archived) >= Len(snapshots)
    /\ \A i \in 1..Len(snapshots) : archived[i] = snapshots[i]

\* what the consumer receives if it iterates to the end
AllUnits == yielded \o pending

\* C1: for duplicate-free, None-free lists with a mismatch at a position both
\* lists have, iterating the generator raises UnexpectedSnapshotStorageLayout,
\* whatever the lengths of the two lists (the claim as stated).
C1_MismatchAlwaysRaises ==
    (Sane(snapshots) /\ Sane(archived) /\ MismatchAtPairedPosition
        /\ gen_pc # "created")
    => (gen_pc = "raised" /\ raised = "UnexpectedSnapshotStorageLayout")

\* C2: with archived = L[0..k-1], 1 <= k < len(L), L a valid lineage, the
\* generator raises nothing and yields exactly the len(L)-k differences
\* (L[k+j-1], L[k+j]), in the order of L, and no plain Snapshot.
C2_PrefixYieldsIncrementalChain ==
    (Sane(snapshots) /\ ProperNonEmptyPrefix /\ gen_pc # "created")
    => /\ gen_pc # "raised"
       /\ Len(AllUnits) = Len(snapshots) - Len(archived)
       /\ \A j \in 1..Len(AllUnits) :
            AllUnits[j] = [kind |-> "SnapshotsDifference",
                           parent |-> snapshots[Len(archived) + j - 1],
                           snapshot |-> snapshots[Len(archived) + j]]
       /\ (gen_pc = "exhausted" => pending = <<>>)

\* two differences have been received after one archived snapshot of three
C2_Witness ==
    /\ Sane(snapshots) /\ ProperNonEmptyPrefix
    /\ Len(snapshots) = 3 /\ Len(archived) = 1
    /\ gen_pc = "exhausted" /\ Len(yielded) = 2

\* C3: with nothing archived and a non-empty duplicate-free L, the generator
\* yields len(L) units in the order of L: the plain Snapshot L[0], then for
\* every i >= 1 the difference (L[i-1], L[i]).
C3_NothingArchivedYieldsFullChain ==
    (Sane(snapshots) /\ Len(snapshots) >= 1 /\ archived = <<>>
        /\ gen_pc # "created")
    => /\ gen_pc # "raised"
       /\ Len(AllUnits) = Len(snapshots)
       /\ AllUnits[1] = [kind |-> "Snapshot", snapshot |-> snapshots[1]]
       /\ \A i \in 2..Len(snapshots) :
            AllUnits[i] = [kind |-> "SnapshotsDifference",
                           parent |-> snapshots[i - 1],
                           snapshot |-> snapshots[i]]
       /\ (gen_pc = "exhausted" => pending = <<>>)

\* the whole chain of three local snapshots has been received
C3_Witness ==
    /\ Sane(snapshots) /\ Len(snapshots) = 3 /\ archived = <<>>
    /\ gen_pc = "exhausted" /\ Len(yielded) = 3

\* C4: when every local snapshot has an equal archived one at its position
\* (len(A) >= len(L)), the generator ends at once: no unit, no exception.
C4_FullyArchivedYieldsNothing ==
    (Sane(snapshots) /\ Sane(archived) /\ EveryLocalMatched
        /\ gen_pc # "created")
    => (gen_pc = "exhausted" /\ yielded = <<>> /\ pending = <<>>
          /\ raised = "none")

\* two local snapshots, three archived ones, the generator has ended
C4_Witness ==
    /\ Sane(snapshots) /\ Sane(archived) /\ EveryLocalMatched
    /\ Len(snapshots) = 2 /\ Len(archived) = 3
    /\ gen_pc = "exhausted"

\* C5: a duplicate or a None in either list makes the generator raise
\* ValueError at its first iteration, before any unit, whatever the other list.
C5_DuplicateOrNoneRaisesValueError ==
    ((~Sane(snapshots) \/ ~Sane(archived)) /\ gen_pc # "created")
    => (gen_pc = "raised" /\ raised = "ValueError" /\ yielded = <<>>)

\* a None in the archived list alone, with lists that would otherwise be an
\* inconsistent layout
C5_Witness ==
    /\ Sane(snapshots) /\ Len(snapshots) = 2
    /\ Len(archived) = 2 /\ archived[2] = None /\ archived[1] # snapshots[1]
    /\ gen_pc = "raised" /\ raised = "ValueError"

(***************************************************************************)
(* storage.compute_storage_filename.  A string is a sequence of            *)
(* characters; "NUL" stands for the character \x00.                        *)
(***************************************************************************)

\* s.fs_uuid: every snapshot lives on the one filesystem
fs_uuid(s) == <<"u">>

\* s.rel_path: a path of its own for every snapshot; the third holds the
\* escape token, the fourth a NUL
rel_path(s) ==
    CASE s = 1 -> <<"a">>
      [] s = 2 -> <<"a", "/", "b">>
      [] s = 3 -> <<"\\", "x", "2", "f">>
      [] s = 4 -> <<"a", "NUL">>
      [] OTHER -> [i \in 1..s |-> "c"]

slash_surrogate == <<"\\", "x", "2", "f">>

\* `token in name`
Contains(name, token) ==
    \E i \in 1..(Len(name) - Len(token) + 1) :
        SubSeq(name, i, i + Len(token) - 1) = token

\* mutant: the slashes are dropped
replace_slash_drop(name) == SelectSeq(name, LAMBDA c : c # "/")

RECURSIVE replace_slash_first_only(_)
\* mutant: name.replace("/", slash_surrogate, 1)
replace_slash_first_only(name) ==
    IF name = <<>> THEN <<>>
    ELSE IF Head(name) = "/" THEN slash_surrogate \o Tail(name)
    ELSE <<Head(name)>> \o replace_slash_first_only(Tail(name))

RECURSIVE replace_slash(_)
\* name.replace("/", slash_surrogate)
replace_slash(name) ==
    IF name = <<>> THEN <<>>
    ELSE (IF Head(name) = "/" THEN slash_surrogate ELSE <<Head(name)>>)
         \o replace_slash(Tail(name))

\* mutant: the test of the null character is lost
_sanitize_without_nul_test(name) ==
    IF Contains(name, slash_surrogate)
    THEN [error |-> "ValueError", name |-> <<>>]
    ELSE [error |-> "none", name |-> replace_slash(name)]

_sanitize_storage_filename(name) ==
    IF "NUL" \in Range(name) THEN [error |-> "ValueError", name |-> <<>>]
    ELSE IF Contains(name, slash_surrogate)
         THEN [error |-> "ValueError", name |-> <<>>]
    ELSE [error |-> "none", name |-> replace_slash(name)]

\* mutant: the difference is named after its parent
compute_storage_filename_of_parent(snapshot_or_diff_) ==
    IF snapshot_or_diff_.kind \notin {"Snapshot", "SnapshotsDifference"}
    THEN [error |-> "ProgrammingError", name |-> <<>>]
    ELSE LET s == IF snapshot_or_diff_.kind = "SnapshotsDifference"
                  THEN snapshot_or_diff_.parent
                  ELSE snapshot_or_diff_.snapshot
         IN  _sanitize_storage_filename(fs_uuid(s) \o <<"/">> \o rel_path(s))

\* mutant: rel_path alone is sanitized, the separator is kept
compute_storage_filename_keep_separator(snapshot_or_diff_) ==
    IF snapshot_or_diff_.kind \notin {"Snapshot", "SnapshotsDifference"}
    THEN [error |-> "ProgrammingError", name |-> <<>>]
    ELSE LET s == snapshot_or_diff_.snapshot
             r == _sanitize_storage_filename(rel_path(s))
         IN  IF r.error # "none" THEN r
             ELSE [error |-> "none", name |-> fs_uuid(s) \o <<"/">> \o r.name]

compute_storage_filename(snapshot_or_diff_) ==
    IF snapshot_or_diff_.kind \notin {"Snapshot", "SnapshotsDifference"}
    THEN [error |-> "ProgrammingError", name |-> <<>>]
    ELSE LET s == snapshot_or_diff_.snapshot
         IN  _sanitize_storage_filename(fs_uuid(s) \o <<"/">> \o rel_path(s))

(***************************************************************************)
(* business.PrepareContent.  Every run is given the same content, dirname  *)
(* and age_recipient, so that all runs compute the same target path.       *)
(***************************************************************************)
Runs == 1..NumRuns

\* an argument that is neither a Snapshot nor a SnapshotsDifference
NotAUnit == [kind |-> "str", snapshot |-> None]

Contents ==
    {SnapshotUnit(s) : s \in Snapshots}
    \cup {SnapshotsDifference(s - 1, s) : s \in Snapshots \ {1}}
    \cup {NotAUnit}

Stages == {"send", "age", "pv"}

\* contextlib.nullcontext(): the stage is None
NoProcess ==
    [state |-> "none", mode |-> "none", stdin |-> "none", stdout |-> "none",
     rc |-> -1]

\* a subprocess.Popen just spawned
Popen(mode, stdin, stdout) ==
    [state |-> "running", mode |-> mode, stdin |-> stdin, stdout |-> stdout,
     rc |-> -1]

\* p.stdout: the read end of the pipe when the stage was given
\* stdout=subprocess.PIPE, else None
stdout_of(p, name) == IF p.stdout = "PIPE" THEN name ELSE "none"

\* what the exit codes of a process can be
ExitCodes == {0, 1}

\* mutant: the test for an existing target is lost
init_checks_no_exists(name) ==
    IF name.error # "none" THEN name.error
    ELSE IF ~dir_exists THEN "PrepareContentEx"
    ELSE IF ~which_btrfs THEN "PrepareContentEx"
    ELSE IF age_recipient /\ ~which_age THEN "PrepareContentEx"
    ELSE "none"

\* PrepareContent.__init__ after compute_storage_filename returned or
\* raised: the exception that leaves the constructor, or "none"
init_checks(name) ==
    IF name.error # "none" THEN name.error
    ELSE IF ~dir_exists THEN "PrepareContentEx"
    ELSE IF target.exists THEN "PrepareContentEx"
    ELSE IF ~which_btrfs THEN "PrepareContentEx"
    ELSE IF age_recipient /\ ~which_age THEN "PrepareContentEx"
    ELSE "none"

\* mutant: the file is opened with "w": created or truncated
open_w(r) ==
    [error |-> "none", target |-> [exists |-> TRUE, data |-> 0, creator |-> r]]

\* open(self.__path, "x") by run r
open_x(r) ==
    IF target.exists THEN [error |-> "FileExistsError", target |-> target]
    ELSE [error |-> "none",
          target |-> [exists |-> TRUE, data |-> 0, creator |-> r]]

_send_process(stdout) ==
    Popen(IF content.kind = "SnapshotsDifference" THEN "parent" ELSE "full",
          "none", stdout)

_age_process(stdin, stdout) ==
    IF ~age_recipient THEN NoProcess ELSE Popen("encrypt", stdin, stdout)

_pv_process(stdin, stdout) ==
    IF ~which_pv THEN NoProcess ELSE Popen("meter", stdin, stdout)

\* mutant: pv is given send.stdout whether or not age is there
spawn_all_pv_reads_send ==
    LET send == _send_process(IF which_pv \/ age_recipient
                              THEN "PIPE" ELSE "file")
        age == _age_process(stdout_of(send, "send.stdout"), "PIPE")
        pv == _pv_process(stdout_of(send, "send.stdout"), "file")
    IN  [send |-> send, age |-> age, pv |-> pv]

\* the three context managers of the with statement of prepare
spawn_all ==
    LET send == _send_process(IF which_pv \/ age_recipient
                              THEN "PIPE" ELSE "file")
        age == _age_process(stdout_of(send, "send.stdout"), "PIPE")
        pv == _pv_process(IF age # NoProcess
                          THEN stdout_of(age, "age.stdout")
                          ELSE stdout_of(send, "send.stdout"),
                          "file")
    IN  [send |-> send, age |-> age, pv |-> pv]

\* the list `processes` whose exit statuses prepare collects
processes(ps) == {"send"} \cup (IF ps.pv # NoProcess THEN {"pv"} ELSE {})

Spawned(ps) == {st \in Stages : ps[st] # NoProcess}

PrepareInit ==
    /\ dir_exists \in BOOLEAN
    /\ which_btrfs \in BOOLEAN
    /\ which_pv \in BOOLEAN
    /\ which_age \in BOOLEAN
    /\ content \in Contents
    /\ age_recipient \in BOOLEAN
    \* the target may be there already, left by an earlier run
    /\ target \in {[exists |-> FALSE, data |-> 0, creator |-> 0],
                   [exists |-> TRUE, data |-> 1, creator |-> 0]}
    /\ (target.exists => dir_exists)
    /\ prep_pc = [r \in Runs |-> "new"]
    /\ prep_err = [r \in Runs |-> "none"]
    /\ procs = [r \in Runs |-> [st \in Stages |-> NoProcess]]
    /\ lines = [r \in Runs |-> 0]

\* PrepareContent(content, dirname, age_recipient)
Construct(r) ==
    /\ prep_pc[r] = "new"
    /\ LET e == init_checks(compute_storage_filename(content)) IN
         \/ /\ e # "none"
            /\ prep_pc' = [prep_pc EXCEPT ![r] = "init_failed"]
            /\ prep_err' = [prep_err EXCEPT ![r] = e]
         \/ /\ e = "none"
            /\ prep_pc' = [prep_pc EXCEPT ![r] = "constructed"]
            /\ UNCHANGED prep_err
    /\ UNCHANGED <<hostVars, content, age_recipient, target, procs, lines>>
    /\ UNCHANGED otherThanPrepare

\* the first next() on prepare(): the with statement opens the file and
\* spawns the stages; with pv the generator then reads pv.stderr, without it
\* waits for the processes
PrepareStart(r) ==
    /\ prep_pc[r] = "constructed"
    /\ LET o == open_x(r) IN
         \/ /\ o.error # "none"
            /\ prep_pc' = [prep_pc EXCEPT ![r] = "failed"]
            /\ prep_err' = [prep_err EXCEPT ![r] = o.error]
            /\ UNCHANGED <<target, procs>>
         \/ /\ o.error = "none"
            /\ target' = o.target
            /\ procs' = [procs EXCEPT ![r] = spawn_all]
            /\ prep_pc' = [prep_pc EXCEPT ![r] =
                              IF spawn_all.pv # NoProcess
                              THEN "draining" ELSE "waiting"]
            /\ UNCHANGED prep_err
    /\ UNCHANGED <<hostVars, content, age_recipient, lines>>
    /\ UNCHANGED otherThanPrepare

\* for line in pv.stderr: yield line.rstrip()
PrepareYield(r) ==
    /\ prep_pc[r] = "draining"
    /\ procs[r].pv.state = "running"
    /\ lines[r] < MaxLines
    /\ lines' = [lines EXCEPT ![r] = @ + 1]
    /\ UNCHANGED <<hostVars, content, age_recipient, target, prep_pc,
                   prep_err, procs>>
    /\ UNCHANGED otherThanPrepare

\* pv.stderr is at its end: pv has exited
PrepareDrained(r) ==
    /\ prep_pc[r] = "draining"
    /\ procs[r].pv.state = "exited"
    /\ prep_pc' = [prep_pc EXCEPT ![r] = "waiting"]
    /\ UNCHANGED <<hostVars, content, age_recipient, target, prep_err,
                   procs, lines>>
    /\ UNCHANGED otherThanPrepare

\* a stage whose stdout is the target file writes to it
StageWrite(r, st) ==
    /\ procs[r][st].state = "running"
    /\ procs[r][st].stdout = "file"
    /\ target.data < MaxChunks
    /\ target' = [target EXCEPT !.data = @ + 1]
    /\ UNCHANGED <<hostVars, content, age_recipient, prep_pc, prep_err,
                   procs, lines>>
    /\ UNCHANGED otherThanPrepare

\* a stage process ends with an exit status
StageExit(r, st, code) ==
    /\ procs[r][st].state = "running"
    /\ procs' = [procs EXCEPT ![r][st].state = "exited", ![r][st].rc = code]
    /\ UNCHANGED <<hostVars, content, age_recipient, target, prep_pc,
                   prep_err, lines>>
    /\ UNCHANGED otherThanPrepare

\* ret = [p.wait() for p in processes], the test of ret, and the __exit__ of
\* every Popen, which waits for its process
PrepareFinish(r) ==
    /\ prep_pc[r] = "waiting"
    /\ \A st \in Spawned(procs[r]) : procs[r][st].state = "exited"
    /\ \/ /\ \E st \in processes(procs[r]) : procs[r][st].rc # 0
          /\ prep_pc' = [prep_pc EXCEPT ![r] = "failed"]
          /\ prep_err' = [prep_err EXCEPT ![r] = "PrepareContentEx"]
       \/ /\ \A st \in processes(procs[r]) : procs[r][st].rc = 0
          /\ prep_pc' = [prep_pc EXCEPT ![r] = "done"]
          /\ UNCHANGED prep_err
    /\ UNCHANGED <<hostVars, content, age_recipient, target, procs, lines>>
    /\ UNCHANGED otherThanPrepare

PrepareNext ==
    \/ \E r \in Runs : Construct(r)
    \/ \E r \in Runs : PrepareStart(r)
    \/ \E r \in Runs : PrepareYield(r)
    \/ \E r \in Runs : PrepareDrained(r)
    \/ \E r \in Runs : PrepareFinish(r)
    \/ \E r \in Runs, st \in Stages : StageWrite(r, st)
    \/ \E r \in Runs, st \in Stages, code \in ExitCodes : StageExit(r, st, code)

InitPrepare == PrepareInit /\ ResolverIdle /\ UploadIdle
    /\ StorageIdle /\ RunIdle

SpecPrepare == InitPrepare /\ [][PrepareNext]_vars

(***************************************************************************)
(* Claims about PrepareContent, checked under SpecPrepare.                 *)
(***************************************************************************)

\* the last stage of the chain of a run: the meter when there is one, else
\* the encryptor when there is one, else the serializer
LastStage(ps) ==
    IF ps.pv # NoProcess THEN "pv"
    ELSE IF ps.age # NoProcess THEN "age"
    ELSE "send"

\* the stages of a run whose output is the target file
FileWriters(ps) == {st \in Spawned(ps) : ps[st].stdout = "file"}

\* C6: when prepare has ended, the exit status of every spawned stage (send,
\* age, pv) was collected: prepare ends without PrepareContentEx only if
\* every spawned stage exited with 0 (the claim as stated).
C6_EveryStageStatusCollected ==
    \A r \in Runs :
        prep_pc[r] = "done" =>
            \A st \in Spawned(procs[r]) : procs[r][st].rc = 0

\* C7: in every configuration, once the stages are spawned exactly one of
\* them has the target file as its output, and it is the last stage of the
\* chain (the claim as stated).
C7_LastStageWritesTarget ==
    \A r \in Runs :
        Spawned(procs[r]) # {} =>
            FileWriters(procs[r]) = {LastStage(procs[r])}

\* one of the four cases the constructor tests for
InitPrecondFails ==
    \/ ~dir_exists
    \/ target.exists
    \/ ~which_btrfs
    \/ (age_recipient /\ ~which_age)

\* C8, as stated: in each of the four cases the constructor fails with
\* PrepareContentEx, spawns no stage and leaves the target file alone.
C8_ConstructRaisesPrepareContentEx ==
    [][\A r \in Runs :
          (Construct(r) /\ InitPrecondFails)
          => /\ prep_pc'[r] = "init_failed"
             /\ prep_err'[r] = "PrepareContentEx"
             /\ procs' = procs
             /\ target' = target]_vars

\* C8, amended: in each of the four cases the constructor fails, spawns no
\* stage and leaves the target file alone; the exception is PrepareContentEx
\* when the storage name of the content can be computed, and the exception
\* of compute_storage_filename (raised before any test) when it cannot.
C8_ConstructFailsBeforeAnySpawn ==
    [][\A r \in Runs :
          (Construct(r) /\ InitPrecondFails)
          => /\ prep_pc'[r] = "init_failed"
             /\ prep_err'[r] =
                  (IF compute_storage_filename(content).error = "none"
                   THEN "PrepareContentEx"
                   ELSE compute_storage_filename(content).error)
             /\ procs' = procs
             /\ target' = target]_vars

\* a recipient is set and age is missing, everything else is in order: the
\* constructor has failed with PrepareContentEx
C8_Witness ==
    /\ dir_exists /\ which_btrfs /\ ~target.exists
    /\ age_recipient /\ ~which_age
    /\ compute_storage_filename(content).error = "none"
    /\ \E r \in Runs :
         /\ prep_pc[r] = "init_failed"
         /\ prep_err[r] = "PrepareContentEx"
         /\ Spawned(procs[r]) = {}

\* the runs one of whose stages holds the target file as its output
RunsWritingTarget == {r \in Runs : FileWriters(procs[r]) # {}}

\* C9: the target is created exclusively: when the file exists at the
\* moment prepare opens it, prepare fails, spawns no stage and leaves the
\* file as it is; so at most one run ever has a stage writing the target.
C9_ExclusiveCreate ==
    [][/\ \A r \in Runs :
            (PrepareStart(r) /\ target.exists)
            => /\ prep_pc'[r] = "failed"
               /\ prep_err'[r] = "FileExistsError"
               /\ procs' = procs
               /\ target' = target
       /\ Cardinality(RunsWritingTarget') <= 1]_vars

\* a run passed the constructor's test, another run then created the file
\* and wrote to it, and the first run's open has failed
C9_Witness ==
    \E r \in Runs :
        /\ prep_pc[r] = "failed"
        /\ prep_err[r] = "FileExistsError"
        /\ target.creator \in Runs \ {r}
        /\ target.data >= 1
        /\ RunsWritingTarget = {target.creator}

(***************************************************************************)
(* storage.upload                                                          *)
(***************************************************************************)
SegmentSizes == 1..MaxSegmentSize

\* the dictionaries swift.upload reports: a segment carries its size
Results ==
    [success : BOOLEAN, action : {"upload_segment"},
     segment_size : SegmentSizes]
    \cup [success : BOOLEAN, action : {"create_container", "upload_object"},
          segment_size : {0}]

\* mutant: any successful result clears will_fail
handle_result_any_success(wf, tr, r) ==
    [will_fail |-> IF r.success THEN FALSE ELSE wf,
     transfered |-> IF r.success /\ r.action = "upload_segment"
                    THEN tr + r.segment_size ELSE tr,
     yields |-> r.success /\ r.action = "upload_segment"]

\* mutant: a failed segment yields a value too
handle_result_yield_failed(wf, tr, r) ==
    [will_fail |-> IF r.success /\ r.action = "upload_object"
                   THEN FALSE ELSE wf,
     transfered |-> IF r.success /\ r.action = "upload_segment"
                    THEN tr + r.segment_size ELSE tr,
     yields |-> r.action = "upload_segment"]

\* mutant: the size of a failed segment is added to transfered
handle_result_count_failed(wf, tr, r) ==
    [will_fail |-> IF r.success /\ r.action = "upload_object"
                   THEN FALSE ELSE wf,
     transfered |-> IF r.action = "upload_segment"
                    THEN tr + r.segment_size ELSE tr,
     yields |-> r.success /\ r.action = "upload_segment"]

\* the body of `for r in swift.upload(...)`: the new will_fail and
\* transfered, and whether the body yields
handle_result(wf, tr, r) ==
    [will_fail |-> IF r.success /\ r.action = "upload_object"
                   THEN FALSE ELSE wf,
     transfered |-> IF r.success /\ r.action = "upload_segment"
                    THEN tr + r.segment_size ELSE tr,
     yields |-> r.success /\ r.action = "upload_segment"]

\* swift.upload(...) is called when the generator is resumed after its
\* first yield
calls_with_upload ==
    IF stream = "none" THEN Append(swift_calls, "upload") ELSE swift_calls

UploadInit ==
    /\ is_file \in BOOLEAN
    /\ container_exists \in BOOLEAN
    /\ up_pc = "created"
    /\ up_raised = "none"
    /\ will_fail = TRUE
    /\ transfered = 0
    /\ progress = <<>>
    /\ results = <<>>
    /\ stream = "none"
    /\ swift_calls = <<>>

\* mutant: the first next() without swift.stat
UploadStart_without_stat ==
    /\ up_pc = "created"
    /\ \/ /\ ~is_file
          /\ up_pc' = "raised"
          /\ up_raised' = "ValueError"
          /\ UNCHANGED progress
       \/ /\ is_file
          /\ up_pc' = "suspended"
          /\ progress' = <<0>>
          /\ UNCHANGED up_raised
    /\ will_fail' = TRUE
    /\ transfered' = 0
    /\ UNCHANGED <<is_file, container_exists, results, stream, swift_calls>>
    /\ UNCHANGED otherThanUpload

\* the first next(): the test of the file, swift.stat, then `yield transfered`
UploadStart ==
    /\ up_pc = "created"
    /\ \/ /\ ~is_file
          /\ up_pc' = "raised"
          /\ up_raised' = "ValueError"
          /\ UNCHANGED <<progress, swift_calls>>
       \/ /\ is_file
          /\ ~container_exists
          /\ swift_calls' = Append(swift_calls, "stat")
          /\ up_pc' = "raised"
          /\ up_raised' = "SwiftError"
          /\ UNCHANGED progress
       \/ /\ is_file
          /\ container_exists
          /\ swift_calls' = Append(swift_calls, "stat")
          /\ up_pc' = "suspended"
          /\ progress' = <<0>>
          /\ UNCHANGED up_raised
    /\ will_fail' = TRUE
    /\ transfered' = 0
    /\ UNCHANGED <<is_file, container_exists, results, stream>>
    /\ UNCHANGED otherThanUpload

\* swift.upload reports a result and the loop body handles it
UploadResult(r) ==
    /\ up_pc \in {"suspended", "running"}
    /\ stream # "ended"
    /\ Len(results) < MaxResults
    /\ stream' = "open"
    /\ swift_calls' = calls_with_upload
    /\ results' = Append(results, r)
    /\ LET h == handle_result(will_fail, transfered, r) IN
         /\ will_fail' = h.will_fail
         /\ transfered' = h.transfered
         /\ \/ /\ h.yields
               /\ progress' = Append(progress, h.transfered)
               /\ up_pc' = "suspended"
            \/ /\ ~h.yields
               /\ up_pc' = "running"
               /\ UNCHANGED progress
    /\ UNCHANGED <<is_file, container_exists, up_raised>>
    /\ UNCHANGED otherThanUpload

\* the results are exhausted: UploadFailure if will_fail, else the end
UploadEnd ==
    /\ up_pc \in {"suspended", "running"}
    /\ stream # "ended"
    /\ stream' = "ended"
    /\ swift_calls' = calls_with_upload
    /\ \/ /\ will_fail
          /\ up_pc' = "raised"
          /\ up_raised' = "UploadFailure"
       \/ /\ ~will_fail
          /\ up_pc' = "exhausted"
          /\ UNCHANGED up_raised
    /\ UNCHANGED <<is_file, container_exists, will_fail, transfered,
                   progress, results>>
    /\ UNCHANGED otherThanUpload

UploadNext ==
    \/ UploadStart
    \/ \E r \in Results : UploadResult(r)
    \/ UploadEnd

InitUpload == UploadInit /\ ResolverIdle /\ PrepareIdle
    /\ StorageIdle /\ RunIdle

SpecUpload == InitUpload /\ [][UploadNext]_vars

(***************************************************************************)
(* Claims about upload, checked under SpecUpload.                          *)
(***************************************************************************)

\* a successful upload_object result was reported
AckSeen ==
    \E i \in 1..Len(results) :
        results[i].success /\ results[i].action = "upload_object"

\* the segments reported successful so far
DoneSegments ==
    {i \in 1..Len(results) :
        results[i].success /\ results[i].action = "upload_segment"}

\* C10: upload ends without an exception only if a successful upload_object
\* result was reported; when the results end without one, upload raises
\* UploadFailure, after a progress value for every successful segment,
\* however many segments succeeded.
C10_SuccessOnlyWithAck ==
    /\ (up_pc = "exhausted" => AckSeen)
    /\ ((stream = "ended" /\ ~AckSeen)
        => /\ up_pc = "raised"
           /\ up_raised = "UploadFailure"
           /\ Len(progress) = 1 + Cardinality(DoneSegments))

\* two segments succeeded, no upload_object was reported, upload has raised
C10_Witness ==
    /\ stream = "ended" /\ ~AckSeen
    /\ Cardinality(DoneSegments) = 2
    /\ up_pc = "raised" /\ up_raised = "UploadFailure"

\* the generator has returned from its first next() without raising
Started == up_pc \in {"suspended", "running", "exhausted"} \/ stream # "none"

SegmentCompletes ==
    /\ Len(results') = Len(results) + 1
    /\ results'[Len(results')].success
    /\ results'[Len(results')].action = "upload_segment"

C12_StatBeforeTransferAndProgress ==
    /\ \A i \in 1..Len(swift_calls) :
          swift_calls[i] = "upload"
            => (i > 1 /\ swift_calls[1] = "stat" /\ container_exists)
    /\ progress # <<>>
         => (swift_calls # <<>> /\ swift_calls[1] = "stat" /\ container_exists)
    /\ (is_file /\ ~container_exists /\ up_pc # "created")
         => /\ up_pc = "raised"
            /\ progress = <<>>
            /\ swift_calls = <<"stat">>

\* the container is missing: stat was called and upload has raised
C12_Witness ==
    /\ is_file /\ ~container_exists
    /\ up_pc = "raised" /\ up_raised = "SwiftError"
    /\ swift_calls = <<"stat">>

\* the result is a successful upload_segment
is_done_segment(r) == r.success /\ r.action = "upload_segment"

RECURSIVE SumSizes(_)
\* the sum of the segment sizes of a sequence of results
SumSizes(rs) ==
    IF rs = <<>> THEN 0 ELSE Head(rs).segment_size + SumSizes(Tail(rs))

\* the successful segments reported so far, in the order of their report
DoneSoFar == SelectSeq(results, is_done_segment)

\* C13: the values yielded by upload never decrease, and each value is the
\* sum of the sizes of the segments reported successful when it was
\* yielded: the i-th value is the sum of the first i - 1 successful
\* segments, and the last one the sum of all successful segments so far;
\* failed segments add nothing.
C13_CumulativeNonDecreasing ==
    /\ \A i \in 1..Len(progress) :
          /\ i - 1 <= Len(DoneSoFar)
          /\ progress[i] = SumSizes(SubSeq(DoneSoFar, 1, i - 1))
    /\ \A i, j \in 1..Len(progress) : i <= j => progress[i] <= progress[j]
    /\ Started => progress[Len(progress)] = SumSizes(DoneSoFar)

\* a failed segment, then two successful ones of different sizes
C13_Witness ==
    /\ Len(results) = 3
    /\ ~results[1].success /\ results[1].action = "upload_segment"
    /\ results[1].segment_size = 2
    /\ is_done_segment(results[2]) /\ is_done_segment(results[3])
    /\ progress = <<0, 1, 3>>

(***************************************************************************)
(* storage._sanitize_storage_filename, called on two names.  The first     *)
(* name is any string of up to MaxStrLen characters; the second is typed   *)
(* in character by character for as long as its replacement is a prefix of *)
(* the replacement of the first: replace works character by character      *)
(* (see C14), so no other second name can be given the name of the first.  *)
(***************************************************************************)
Chars == {"/", "\\", "x", "2", "f", "NUL"}

Names == SeqsUpTo(Chars, MaxStrLen)

IsPrefix(p, n) == Len(p) <= Len(n) /\ SubSeq(n, 1, Len(p)) = p

SanitizeInit ==
    /\ base \in Names
    /\ other = <<>>
    /\ sanitized = <<>>

\* one more character of the second name
OtherAppend(c) ==
    /\ sanitized = <<>>
    /\ Len(other) < MaxStrLen
    /\ IsPrefix(replace_slash(Append(other, c)), replace_slash(base))
    /\ other' = Append(other, c)
    /\ UNCHANGED <<base, sanitized>>
    /\ UNCHANGED otherThanSanitize

\* _sanitize_storage_filename(base) and _sanitize_storage_filename(other)
SanitizeBoth ==
    /\ sanitized = <<>>
    /\ sanitized' = <<_sanitize_storage_filename(base),
                      _sanitize_storage_filename(other)>>
    /\ UNCHANGED <<base, other>>
    /\ UNCHANGED otherThanSanitize

SanitizeNext ==
    \/ \E c \in Chars : OtherAppend(c)
    \/ SanitizeBoth

InitSanitize ==
    SanitizeInit /\ ResolverIdle /\ PrepareIdle /\ UploadIdle
    /\ NamingIdle /\ PrefixIdle /\ StoredIdle /\ RunIdle

SpecSanitize == InitSanitize /\ [][SanitizeNext]_vars

(***************************************************************************)
(* Claims about _sanitize_storage_filename, checked under SpecSanitize.    *)
(***************************************************************************)

\* the name holds a null character
HasNul(n) == \E i \in 1..Len(n) : n[i] = "NUL"

\* the name holds the four characters of the escape token in a row
HasToken(n) ==
    \E i \in 1..(Len(n) - 3) :
        n[i] = "\\" /\ n[i + 1] = "x" /\ n[i + 2] = "2" /\ n[i + 3] = "f"

Accepted(n) == ~HasNul(n) /\ ~HasToken(n)

\* C14: _sanitize_storage_filename is injective on accepted inputs: two
\* distinct names holding neither a null character nor the escape token are
\* both given a name, and the two names differ.  (The replacement of a name
\* extended by a character is the replacement of the name followed by that
\* of the character, which is why the second name is searched among the
\* names whose replacement is a prefix of that of the first.)
C14_InjectiveOnAccepted ==
    /\ \A c \in Chars :
          replace_slash(Append(base, c))
            = replace_slash(base) \o replace_slash(<<c>>)
    /\ (sanitized # <<>> /\ base # other /\ Accepted(base) /\ Accepted(other))
         => /\ sanitized[1].error = "none"
            /\ sanitized[2].error = "none"
            /\ sanitized[1].name # sanitized[2].name

\* two accepted names, the longer one ending in a slash after the first
\* three characters of the token
C14_Witness ==
    /\ sanitized # <<>>
    /\ base = <<"\\", "x", "2", "/">>
    /\ other = <<"\\", "x", "2">>
    /\ sanitized[1].error = "none" /\ sanitized[2].error = "none"

\* C15: naming fails with ValueError exactly when the base holds a null
\* character or the escape token; every other base is given a name.
C15_FailsExactlyOnNulOrToken ==
    sanitized # <<>>
    => /\ sanitized[1].error \in {"none", "ValueError"}
       /\ sanitized[1].error = "ValueError" <=> (HasNul(base) \/ HasToken(base))
       /\ sanitized[2].error = "ValueError" <=> (HasNul(other) \/ HasToken(other))

\* the base is the escape token and is refused, the second name is a slash
\* and is given the name the base would have collided with
C15_Witness ==
    /\ sanitized # <<>>
    /\ base = <<"\\", "x", "2", "f">> /\ other = <<"/">>
    /\ sanitized[1].error = "ValueError"
    /\ sanitized[2] = [error |-> "none", name |-> base]

\* the number of slashes before position i of the name
SlashesBefore(n, i) == Cardinality({j \in 1..(i - 1) : n[j] = "/"})

\* res is n with every slash replaced by the four characters of the token
\* and every other character kept, in order
IsEscapeOf(res, n) ==
    /\ Len(res) = Len(n) + 3 * SlashesBefore(n, Len(n) + 1)
    /\ \A i \in 1..Len(n) :
          LET at == i + 3 * SlashesBefore(n, i) IN
          IF n[i] = "/"
          THEN res[at] = "\\" /\ res[at + 1] = "x"
               /\ res[at + 2] = "2" /\ res[at + 3] = "f"
          ELSE res[at] = n[i]

\* C16: for every accepted base the name returned is the base with every
\* slash replaced by the escape token and nothing else changed: it holds no
\* slash and its length is len(base) + 3 * (number of slashes of the base).
C16_EverySlashReplaced ==
    (sanitized # <<>> /\ Accepted(base))
    => /\ sanitized[1].error = "none"
       /\ IsEscapeOf(sanitized[1].name, base)
       /\ \A i \in 1..Len(sanitized[1].name) : sanitized[1].name[i] # "/"
       /\ Len(sanitized[1].name)
            = Len(base) + 3 * Cardinality({j \in 1..Len(base) : base[j] = "/"})

\* a base with two slashes around a character
C16_Witness ==
    /\ sanitized # <<>>
    /\ base = <<"/", "x", "/">>
    /\ sanitized[1].error = "none"
    /\ Len(sanitized[1].name) = 9

(***************************************************************************)
(* storage.compute_storage_filename, called on a snapshot, on its          *)
(* differences with two parents and on something that is no unit.          *)
(***************************************************************************)

\* the arguments of the calls
NamingArgs ==
    {SnapshotUnit(nm_snapshot),
     SnapshotsDifference(nm_parents[1], nm_snapshot),
     SnapshotsDifference(nm_parents[2], nm_snapshot),
     NotAUnit}

NamingInit ==
    /\ nm_snapshot \in Snapshots
    /\ nm_parents \in Snapshots \X Snapshots
    /\ nm_names = {}

\* compute_storage_filename(u)
NameUnit(u) ==
    /\ \A c \in nm_names : c[1] # u
    /\ nm_names' = nm_names \cup {<<u, compute_storage_filename(u)>>}
    /\ UNCHANGED <<nm_snapshot, nm_parents>>
    /\ UNCHANGED otherThanNaming

NamingNext == \E u \in NamingArgs : NameUnit(u)

InitNaming ==
    NamingInit /\ ResolverIdle /\ PrepareIdle /\ UploadIdle
    /\ SanitizeIdle /\ PrefixIdle /\ StoredIdle /\ RunIdle

SpecNaming == InitNaming /\ [][NamingNext]_vars

(***************************************************************************)
(* Claims about compute_storage_filename, checked under SpecNaming.        *)
(***************************************************************************)

\* the calls that returned a name
Named == {c \in nm_names : c[2].error = "none"}

\* the part of a name after its first k characters
After(name, k) == SubSeq(name, k + 1, Len(name))

\* C17 as stated: the identifier of a snapshot is its lineage identifier,
\* then the separator "/", then its relative path with every slash replaced
\* by the escape token.
C17_SeparatorThenEscapedPath ==
    \A c \in Named :
        LET s == c[1].snapshot
            n == Len(fs_uuid(s)) IN
        /\ Len(c[2].name) > n
        /\ SubSeq(c[2].name, 1, n) = fs_uuid(s)
        /\ c[2].name[n + 1] = "/"
        /\ IsEscapeOf(After(c[2].name, n + 1), rel_path(s))

\* C17, amended: the identifier of a snapshot is its lineage identifier,
\* then the escape token in the place of the separator, then its relative
\* path with every slash replaced by the escape token; it holds no slash.
C17_EscapedSeparatorThenEscapedPath ==
    \A c \in Named :
        LET s == c[1].snapshot
            n == Len(fs_uuid(s)) IN
        /\ Len(c[2].name) >= n + 4
        /\ SubSeq(c[2].name, 1, n) = fs_uuid(s)
        /\ SubSeq(c[2].name, n + 1, n + 4) = <<"\\", "x", "2", "f">>
        /\ IsEscapeOf(After(c[2].name, n + 4), rel_path(s))
        /\ \A i \in 1..Len(c[2].name) : c[2].name[i] # "/"

\* a snapshot whose relative path holds a slash has been named
C17_Witness ==
    \E c \in Named :
        /\ c[1] = SnapshotUnit(nm_snapshot)
        /\ \E i \in 1..Len(rel_path(nm_snapshot)) :
              rel_path(nm_snapshot)[i] = "/"

\* C18: the difference of a snapshot with any parent is given the
\* identifier of the snapshot itself, and an argument that is neither a
\* Snapshot nor a SnapshotsDifference is rejected with ProgrammingError.
C18_ParentNeverAffectsName ==
    /\ \A c, d \in nm_names :
          (c[1] # NotAUnit /\ d[1] # NotAUnit) => c[2] = d[2]
    /\ \A c \in nm_names :
          c[1] = NotAUnit => c[2].error = "ProgrammingError"
    /\ \A c \in nm_names :
          c[1] # NotAUnit => c[2].error # "ProgrammingError"

\* a snapshot, its differences with two parents of other names, and a
\* string have been named
C18_Witness ==
    /\ Cardinality(nm_names) = 4
    /\ nm_parents[1] # nm_parents[2]
    /\ nm_snapshot \notin Range(nm_parents)
    /\ \E c \in Named : c[1] = SnapshotsDifference(nm_parents[1], nm_snapshot)

(***************************************************************************)
(* storage._compute_common_prefix                                          *)
(***************************************************************************)
Letters == {"a", "b"}

Words == SeqsUpTo(Letters, MaxWordLen)

\* the number of tuples of zip(*str_list): the length of the shortest string
zipped_len(strs) ==
    IF strs = <<>> THEN 0
    ELSE CHOOSE n \in {Len(strs[k]) : k \in 1..Len(strs)} :
            \A k \in 1..Len(strs) : n <= Len(strs[k])

\* `all(letters[0] == letter for letter in letters)` for the i-th tuple
equals(strs, i) == \A k \in 1..Len(strs) : strs[1][i] = strs[k][i]

RECURSIVE prefix_loop_no_break(_, _, _)
\* mutant: the loop goes on after letters that differ
prefix_loop_no_break(strs, i, acc) ==
    IF i > zipped_len(strs) THEN acc
    ELSE IF equals(strs, i)
         THEN prefix_loop_no_break(strs, i + 1, Append(acc, strs[1][i]))
         ELSE prefix_loop_no_break(strs, i + 1, acc)

RECURSIVE prefix_loop(_, _, _)
\* `for letters in zipped`, from the i-th tuple on
prefix_loop(strs, i, acc) ==
    IF i > zipped_len(strs) THEN acc
    ELSE IF equals(strs, i)
         THEN prefix_loop(strs, i + 1, Append(acc, strs[1][i]))
         ELSE acc

\* mutant: the first string is taken for the prefix of all
_compute_common_prefix_first(strs) ==
    IF strs = <<>> THEN <<>> ELSE strs[1]

_compute_common_prefix(strs) == prefix_loop(strs, 1, <<>>)

PrefixInit ==
    /\ str_list \in SeqsUpTo(Words, MaxLen)
    /\ cp_pc = "created"
    /\ rest = <<>>

\* _compute_common_prefix(str_list)
CommonPrefix ==
    /\ cp_pc = "created"
    /\ rest' = _compute_common_prefix(str_list)
    /\ cp_pc' = "returned"
    /\ UNCHANGED str_list
    /\ UNCHANGED otherThanPrefix

PrefixNext == CommonPrefix

InitPrefix ==
    PrefixInit /\ ResolverIdle /\ PrepareIdle /\ UploadIdle
    /\ SanitizeIdle /\ NamingIdle /\ StoredIdle /\ RunIdle

SpecPrefix == InitPrefix /\ [][PrefixNext]_vars

\* C19: _compute_common_prefix returns the longest common prefix of the
\* strings of its list: the result is a prefix of every string, and no
\* longer common prefix exists, for some string has the length of the
\* result or two strings differ at the next character; strings that share
\* no first character give the empty string (as the empty list does).
C19_LongestCommonPrefix ==
    cp_pc = "returned"
    => /\ \A k \in 1..Len(str_list) : IsPrefix(rest, str_list[k])
       /\ str_list # <<>>
            => \/ \E k \in 1..Len(str_list) : Len(str_list[k]) = Len(rest)
               \/ \E j, k \in 1..Len(str_list) :
                     str_list[j][Len(rest) + 1] # str_list[k][Len(rest) + 1]
       /\ (\/ \E k \in 1..Len(str_list) : str_list[k] = <<>>
           \/ \E j, k \in 1..Len(str_list) :
                 /\ str_list[j] # <<>> /\ str_list[k] # <<>>
                 /\ str_list[j][1] # str_list[k][1])
            => rest = <<>>
       /\ str_list = <<>> => rest = <<>>

\* three strings of two characters that agree on the first one only
C19_Witness ==
    /\ cp_pc = "returned"
    /\ Len(str_list) = 3
    /\ \A k \in 1..3 : Len(str_list[k]) = 2
    /\ rest = <<"a">>

(***************************************************************************)
(* storage.only_stored.  The container holds any of the names of the local *)
(* snapshots and of two objects that are no snapshot, one under the prefix *)
(* of the first two snapshots and one under no prefix but the empty one.   *)
(***************************************************************************)

\* the snapshots of the host: those of the lineage and two more
LocalSnapshots == 1..(NumSnapshots + 2)

\* compute_storage_filename(s) for a Snapshot
storage_name(s) == compute_storage_filename(SnapshotUnit(s))

ForeignNames ==
    << <<"u", "\\", "x", "2", "f", "a", "z">>, <<"o">> >>

\* every name an object of the container may have, in the order in which
\* the service lists them
RemoteNames ==
    LET nameable ==
            SelectSeq([s \in LocalSnapshots |-> s],
                      LAMBDA s : storage_name(s).error = "none")
    IN  [i \in 1..Len(nameable) |-> storage_name(nameable[i]).name]
        \o ForeignNames

\* what swift.list has to report: the names of the container that start
\* with the prefix
listing_of(cat, prefix) ==
    SelectSeq(RemoteNames, LAMBDA n : n \in cat /\ IsPrefix(prefix, n))

\* the pages swift.list may produce next: the page of the next PageSize
\* names, or a page that reports a failure
next_pages(cat, prefix, delivered) ==
    LET all == listing_of(cat, prefix) IN
    {[success |-> FALSE, listing |-> <<>>]}
    \cup (IF delivered < Len(all)
          THEN {[success |-> TRUE,
                 listing |-> SubSeq(all, delivered + 1,
                                    Min(delivered + PageSize, Len(all)))]}
          ELSE {})

\* the body of `for page in list_parts_gen`
parse_page(names, page) ==
    IF ~page.success THEN [error |-> "SwiftError", names |-> names]
    ELSE [error |-> "none", names |-> names \o page.listing]

\* mutant: the snapshots of the container are sorted by name
filter_stored_sorted(snaps, names) ==
    SelectSeq([s \in LocalSnapshots |-> s],
              LAMBDA s : s \in Range(snaps) /\ storage_name(s).name \in Range(names))

\* [s for s in ro_snapshots if compute_storage_filename(s) in names]
filter_stored(snaps, names) ==
    SelectSeq(snaps, LAMBDA s : storage_name(s).name \in Range(names))

\* the exception of the first snapshot that cannot be named, or "none"
first_error(snaps) ==
    IF \A i \in 1..Len(snaps) : storage_name(snaps[i]).error = "none"
    THEN "none"
    ELSE LET i == CHOOSE i \in 1..Len(snaps) :
                    /\ storage_name(snaps[i]).error # "none"
                    /\ \A j \in 1..(i - 1) : storage_name(snaps[j]).error = "none"
         IN  storage_name(snaps[i]).error

StoredInit ==
    /\ ro_snapshots \in SeqsUpTo(LocalSnapshots, MaxLen)
    /\ catalog \in SUBSET Range(RemoteNames)
    /\ os_pc = "created"
    /\ os_raised = "none"
    /\ list_prefix = <<>>
    /\ pages = <<>>
    /\ container_item_names = <<>>
    /\ os_result = <<>>

\* the call, up to swift.list: the names, their common prefix
OnlyStoredStart ==
    /\ os_pc = "created"
    /\ \/ /\ first_error(ro_snapshots) # "none"
          /\ os_pc' = "raised"
          /\ os_raised' = first_error(ro_snapshots)
          /\ UNCHANGED list_prefix
       \/ /\ first_error(ro_snapshots) = "none"
          /\ os_pc' = "listing"
          /\ list_prefix' =
                _compute_common_prefix(
                    [i \in 1..Len(ro_snapshots)
                        |-> storage_name(ro_snapshots[i]).name])
          /\ UNCHANGED os_raised
    /\ UNCHANGED <<ro_snapshots, catalog, pages, container_item_names,
                   os_result>>
    /\ UNCHANGED otherThanStored

\* swift.list produces a page and _parse_list_page_gen handles it
ListPage(page) ==
    /\ os_pc = "listing"
    /\ Len(pages) <= Len(listing_of(catalog, list_prefix))
    /\ page \in next_pages(catalog, list_prefix, Len(container_item_names))
    /\ pages' = Append(pages, page)
    /\ LET h == parse_page(container_item_names, page) IN
         /\ container_item_names' = h.names
         /\ \/ /\ h.error # "none"
               /\ os_pc' = "raised"
               /\ os_raised' = h.error
            \/ /\ h.error = "none"
               /\ UNCHANGED <<os_pc, os_raised>>
    /\ UNCHANGED <<ro_snapshots, catalog, list_prefix, os_result>>
    /\ UNCHANGED otherThanStored

\* the pages are exhausted: the snapshots are filtered and returned
ListEnd ==
    /\ os_pc = "listing"
    /\ Len(container_item_names) = Len(listing_of(catalog, list_prefix))
    /\ os_result' = filter_stored(ro_snapshots, container_item_names)
    /\ os_pc' = "returned"
    /\ UNCHANGED <<ro_snapshots, catalog, os_raised, list_prefix, pages,
                   container_item_names>>
    /\ UNCHANGED otherThanStored

StoredNext ==
    \/ OnlyStoredStart
    \/ \E page \in next_pages(catalog, list_prefix, Len(container_item_names)) :
          ListPage(page)
    \/ ListEnd

InitStored ==
    StoredInit /\ ResolverIdle /\ PrepareIdle /\ UploadIdle
    /\ SanitizeIdle /\ NamingIdle /\ PrefixIdle /\ RunIdle

SpecStored == InitStored /\ [][StoredNext]_vars

(***************************************************************************)
(* Claims about only_stored, checked under SpecStored.                     *)
(***************************************************************************)

\* a page of the listing has reported a failure
PageFailed == \E i \in 1..Len(pages) : ~pages[i].success

\* the positions of the input whose snapshot has its name in the container
StoredPositions ==
    {i \in 1..Len(ro_snapshots) : storage_name(ro_snapshots[i]).name \in catalog}

\* C20: only_stored returns exactly the local snapshots whose storage name
\* is in the container, in the order of the input: the k-th snapshot
\* returned is the snapshot at the k-th such position of the input, whatever
\* other names the container holds; and once a page of the listing has
\* reported a failure the call has raised and returned nothing.
C20_OnlyStoredFiltersInOrder ==
    /\ os_pc = "returned"
         => /\ Len(os_result) = Cardinality(StoredPositions)
            /\ \A i \in StoredPositions :
                  os_result[Cardinality({j \in StoredPositions : j <= i})]
                    = ro_snapshots[i]
    /\ PageFailed => (os_pc = "raised" /\ os_raised = "SwiftError")
    /\ os_pc # "returned" => os_result = <<>>

\* three snapshots given out of the order of their names, the second one
\* not stored, and an object that is no snapshot listed on a second page
C20_Witness ==
    /\ os_pc = "returned"
    /\ Len(ro_snapshots) = 3
    /\ os_result = <<ro_snapshots[1], ro_snapshots[3]>>
    /\ ro_snapshots[1] > ro_snapshots[3]
    /\ storage_name(ro_snapshots[2]).name \notin catalog
    /\ Len(pages) = 2
    /\ ForeignNames[1] \in Range(container_item_names)

\* a page has reported a failure after a page of names
C20_FailedPageWitness ==
    /\ Len(pages) = 2 /\ pages[1].success /\ ~pages[2].success
    /\ os_pc = "raised"

(***************************************************************************)
(* More claims about compute_snapshot_to_archive, checked under            *)
(* SpecResolver.                                                           *)
(***************************************************************************)

\* archived is what only_stored may return for snapshots: the snapshots of
\* some set, in the order of snapshots
ArchivedIsStoredSubList ==
    \E stored \in SUBSET Range(snapshots) :
        archived = SelectSeq(snapshots, LAMBDA x : x \in stored)

\* C26: when L is a valid lineage and the archived list is a sub-list of L
\* as only_stored returns it, the generator raises
\* UnexpectedSnapshotStorageLayout if and only if the archived list is not a
\* prefix of L; two lists of the same length are equal, so the early return
\* accepts no diverged archive.
C26_StoredSubListRaisesIffNotPrefix ==
    (Sane(snapshots) /\ ArchivedIsStoredSubList /\ gen_pc # "created")
    => /\ (gen_pc = "raised" /\ raised = "UnexpectedSnapshotStorageLayout")
            <=> ~IsPrefix(archived, snapshots)
       /\ gen_pc = "raised" => raised = "UnexpectedSnapshotStorageLayout"
       /\ Len(snapshots) = Len(archived) => archived = snapshots

\* the first of three snapshots is missing from the archive
C26_Witness ==
    /\ Sane(snapshots) /\ Len(snapshots) = 3
    /\ archived = <<snapshots[2], snapshots[3]>>
    /\ gen_pc = "raised" /\ raised = "UnexpectedSnapshotStorageLayout"

\* the snapshots of the units emitted before the j-th
EmittedBefore(j) == {AllUnits[k].snapshot : k \in 1..(j - 1)}

\* C28: in every sequence the generator emits, the parent of a difference
\* is a snapshot of the archived list or the snapshot of the unit emitted
\* just before it, so that it is archived when units are archived in the
\* order of emission; and no unit is for a snapshot of the archived list.
C28_ParentAvailable ==
    \A j \in 1..Len(AllUnits) :
        /\ AllUnits[j].kind = "SnapshotsDifference"
             => /\ \/ AllUnits[j].parent \in Range(archived)
                   \/ (j > 1 /\ AllUnits[j].parent = AllUnits[j - 1].snapshot)
                /\ AllUnits[j].parent \in Range(archived) \cup EmittedBefore(j)
        /\ AllUnits[j].snapshot \notin Range(archived)

\* one archived snapshot of three: the first difference is against it, the
\* second against the snapshot of the first
C28_Witness ==
    /\ Len(snapshots) = 3 /\ Len(archived) = 1
    /\ Len(AllUnits) = 2
    /\ AllUnits[1].kind = "SnapshotsDifference"
    /\ AllUnits[1].parent = archived[1]
    /\ AllUnits[2].parent = AllUnits[1].snapshot

(***************************************************************************)
(* The prefix given to swift.list, checked under SpecStored.               *)
(***************************************************************************)

\* the names of the local snapshots
LocalNames ==
    [i \in 1..Len(ro_snapshots) |-> storage_name(ro_snapshots[i]).name]

\* C30: listing the container under the common prefix of the local names
\* does not change what only_stored returns: the result is the one computed
\* from the names of the whole container, every local name starting with
\* the prefix.
C30_PrefixFilterIsTransparent ==
    /\ os_pc = "returned"
         => os_result = filter_stored(ro_snapshots, listing_of(catalog, <<>>))
    /\ os_pc \in {"listing", "returned"}
         => \A i \in 1..Len(LocalNames) : IsPrefix(list_prefix, LocalNames[i])

\* one local snapshot, stored: the prefix is its whole name, and the
\* container holds names that the listing leaves out
C30_Witness ==
    /\ os_pc = "returned"
    /\ Len(ro_snapshots) = 1
    /\ list_prefix = LocalNames[1]
    /\ os_result = ro_snapshots
    /\ Len(listing_of(catalog, <<>>)) > Len(container_item_names)

\* no local snapshot: the prefix is empty and the whole container is listed
C30_EmptyPrefixWitness ==
    /\ os_pc = "returned"
    /\ ro_snapshots = <<>>
    /\ list_prefix = <<>>
    /\ container_item_names = listing_of(catalog, <<>>)
    /\ container_item_names # <<>>

(***************************************************************************)
(* The chain of stages of prepare, checked under SpecPrepare.              *)
(***************************************************************************)

\* run r is past the with statement of prepare
HasSpawned(r) ==
    prep_pc[r] \in {"draining", "waiting", "done"} \/ Spawned(procs[r]) # {}

\* C25: the chain of prepare is the serializer always, the encryptor if and
\* only if a recipient is set, the meter if and only if pv was located;
\* the encryptor reads the serializer, the meter reads the encryptor when
\* there is one and the serializer otherwise; the serializer is run with
\* `-p parent snapshot` exactly for a SnapshotsDifference and with the
\* snapshot alone for a Snapshot.
C25_StageChain ==
    \A r \in Runs :
        HasSpawned(r) =>
            LET ps == procs[r] IN
            /\ ps.send # NoProcess
            /\ ps.send.stdin = "none"
            /\ (ps.age # NoProcess) <=> age_recipient
            /\ (ps.pv # NoProcess) <=> which_pv
            /\ ps.age # NoProcess
                 => ps.send.stdout = "PIPE" /\ ps.age.stdin = "send.stdout"
            /\ (ps.pv # NoProcess /\ ps.age # NoProcess)
                 => ps.age.stdout = "PIPE" /\ ps.pv.stdin = "age.stdout"
            /\ (ps.pv # NoProcess /\ ps.age = NoProcess)
                 => ps.send.stdout = "PIPE" /\ ps.pv.stdin = "send.stdout"
            /\ (ps.send.mode = "parent") <=> (content.kind = "SnapshotsDifference")
            /\ (ps.send.mode = "full") <=> (content.kind = "Snapshot")

\* the three stages of a difference
C25_Witness ==
    \E r \in Runs :
        /\ HasSpawned(r)
        /\ age_recipient /\ which_pv
        /\ content.kind = "SnapshotsDifference"
        /\ procs[r].pv.stdin = "age.stdout"
        /\ procs[r].send.mode = "parent"

\* a full snapshot, no encryptor: the meter reads the serializer
C25_MeterReadsSerializerWitness ==
    \E r \in Runs :
        /\ HasSpawned(r)
        /\ ~age_recipient /\ which_pv
        /\ content.kind = "Snapshot"
        /\ procs[r].pv.stdin = "send.stdout"
        /\ procs[r].send.mode = "full"

(***************************************************************************)
(* Run after run: each run resolves the units to archive and archives the  *)
(* first, the next run finds its snapshot among the archived ones.         *)
(***************************************************************************)

otherThanRounds ==
    <<resolverVars, prepareVars, uploadVars, sanitizeVars, namingVars,
      prefixVars, storedVars, pipelineVars, processVars>>

\* the proper prefixes of a list
ProperPrefixes(l) == {SubSeq(l, 1, k) : k \in 0..(Len(l) - 1)}

RoundsInit ==
    /\ rd_snapshots \in SeqsUpTo(Entries, MaxLen)
    /\ rd_archived \in ProperPrefixes(rd_snapshots)
    /\ rd_first = Len(rd_archived)
    /\ rd_pc = "start"
    /\ rd_units = [error |-> "none", units |-> <<>>]
    /\ rd_previous = <<>>
    /\ rd_rounds = 0

\* list(compute_snapshot_to_archive(snapshots, archived_snapshots))
Resolve ==
    /\ rd_pc = "start"
    /\ rd_units' = compute_snapshot_to_archive(rd_snapshots, rd_archived)
    /\ rd_pc' = "resolved"
    /\ UNCHANGED <<rd_snapshots, rd_archived, rd_first, rd_previous, rd_rounds>>
    /\ UNCHANGED otherThanRounds

\* the first unit is uploaded; only_stored of the next run keeps the
\* snapshots whose name is in the container, in the order of the local ones
ArchiveFirst ==
    /\ rd_pc = "resolved"
    /\ rd_units.error = "none"
    /\ rd_units.units # <<>>
    /\ rd_archived' =
          SelectSeq(rd_snapshots,
                    LAMBDA x : x \in Range(rd_archived)
                                     \cup {Head(rd_units.units).snapshot})
    /\ rd_previous' = rd_units.units
    /\ rd_rounds' = rd_rounds + 1
    /\ rd_pc' = "start"
    /\ UNCHANGED <<rd_snapshots, rd_first, rd_units>>
    /\ UNCHANGED otherThanRounds

RoundsNext ==
    \/ Resolve
    \/ ArchiveFirst

InitRounds ==
    RoundsInit /\ ResolverIdle /\ PrepareIdle /\ UploadIdle /\ StorageIdle
    /\ PipelineIdle /\ ProcessIdle

SpecRounds == InitRounds /\ [][RoundsNext]_vars

\* C27: for a valid lineage L and a proper prefix A of L, once the first
\* unit of the resolution is archived the next resolution does not raise
\* and gives the tail of the one before; the result is empty after exactly
\* len(L) - len(A) rounds, and not before.
C27_RoundsMakeProgress ==
    (Sane(rd_snapshots) /\ rd_pc = "resolved")
    => /\ rd_units.error = "none"
       /\ rd_rounds > 0 => rd_units.units = Tail(rd_previous)
       /\ (rd_units.units = <<>>) <=> (rd_rounds = Len(rd_snapshots) - rd_first)
       /\ rd_rounds <= Len(rd_snapshots) - rd_first

\* three rounds from an empty archive
C27_Witness ==
    /\ Sane(rd_snapshots) /\ Len(rd_snapshots) = 3
    /\ rd_first = 0 /\ rd_rounds = 3
    /\ rd_pc = "resolved" /\ rd_units.units = <<>>
    /\ Len(rd_previous) = 1

\* the second round of three gives the tail of the first
C27_TailWitness ==
    /\ Sane(rd_snapshots) /\ Len(rd_snapshots) = 3
    /\ rd_first = 0 /\ rd_rounds = 1
    /\ rd_pc = "resolved" /\ Len(rd_units.units) = 2
    /\ rd_units.units = Tail(rd_previous)

(***************************************************************************)
(* prepare with its pipes: a write to a full pipe blocks, a stage ends     *)
(* once its input is exhausted and its output written.                     *)
(***************************************************************************)

otherThanPipeline ==
    <<resolverVars, uploadVars, sanitizeVars, namingVars, prefixVars,
      storedVars, roundsVars, processVars>>

\* the run whose pipes are followed
FirstRun == {r \in Runs : \A q \in Runs : r <= q}

\* the pipe behind the stdout of a stage given stdout=subprocess.PIPE
OutPipe(st) == IF st = "send" THEN "send.stdout" ELSE "age.stdout"

\* the running stages that have the pipe as stdin
Readers(ps, pipe) ==
    {st \in Stages : ps[st].state = "running" /\ ps[st].stdin = pipe}

\* the running stages that have the pipe as stdout
Writers(ps, pipe) ==
    {st \in Stages : /\ ps[st].state = "running"
                     /\ ps[st].stdout = "PIPE" /\ OutPipe(st) = pipe}

\* a read end of the pipe is open: in a stage, or in the Popen object, which
\* prepare never reads
HasReadEnd(ps, pipe) == Readers(ps, pipe) # {} \/ ~pl_closed

\* what the stage has at hand to write
HasOutput(ps, st) ==
    IF st = "send" THEN pl_todo > 0 ELSE pl_pipe[ps[st].stdin] > 0

\* the stage has read its input to the end
InputExhausted(ps, st) ==
    IF st = "send" THEN pl_todo = 0
    ELSE pl_pipe[ps[st].stdin] = 0 /\ Writers(ps, ps[st].stdin) = {}

PipelineInit ==
    /\ PrepareInit
    /\ pl_todo \in 0..MaxData
    /\ pl_pipe = [p \in Pipes |-> 0]
    /\ pl_closed = FALSE

\* the stage writes a chunk: to the target file, or to its pipe when the
\* pipe has room
StageWrites(r, st) ==
    /\ procs[r][st].state = "running"
    /\ HasOutput(procs[r], st)
    /\ \/ /\ procs[r][st].stdout = "file"
          /\ target' = [target EXCEPT !.data = @ + 1]
          /\ pl_pipe' = IF st = "send" THEN pl_pipe
                        ELSE [pl_pipe EXCEPT ![procs[r][st].stdin] = @ - 1]
       \/ /\ procs[r][st].stdout = "PIPE"
          /\ HasReadEnd(procs[r], OutPipe(st))
          /\ pl_pipe[OutPipe(st)] < PipeCapacity
          /\ pl_pipe' = IF st = "send"
                        THEN [pl_pipe EXCEPT ![OutPipe(st)] = @ + 1]
                        ELSE [pl_pipe EXCEPT ![procs[r][st].stdin] = @ - 1,
                                             ![OutPipe(st)] = @ + 1]
          /\ UNCHANGED target
    /\ pl_todo' = IF st = "send" THEN pl_todo - 1 ELSE pl_todo
    /\ UNCHANGED <<hostVars, content, age_recipient, prep_pc, prep_err,
                   procs, lines, pl_closed>>
    /\ UNCHANGED otherThanPipeline

\* the stage has nothing more to read nor to write: it ends
StageEnds(r, st, code) ==
    /\ procs[r][st].state = "running"
    /\ InputExhausted(procs[r], st)
    /\ procs' = [procs EXCEPT ![r][st].state = "exited", ![r][st].rc = code]
    /\ UNCHANGED <<hostVars, content, age_recipient, target, prep_pc,
                   prep_err, lines>>
    /\ UNCHANGED pipelineVars
    /\ UNCHANGED otherThanPipeline

\* the stage writes to a pipe whose read ends are all closed: SIGPIPE
BrokenPipe(r, st) ==
    /\ procs[r][st].state = "running"
    /\ procs[r][st].stdout = "PIPE"
    /\ HasOutput(procs[r], st)
    /\ ~HasReadEnd(procs[r], OutPipe(st))
    /\ procs' = [procs EXCEPT ![r][st].state = "exited", ![r][st].rc = 1]
    /\ UNCHANGED <<hostVars, content, age_recipient, target, prep_pc,
                   prep_err, lines>>
    /\ UNCHANGED pipelineVars
    /\ UNCHANGED otherThanPipeline

\* ret = [p.wait() for p in processes] and the test of ret; the with
\* statement is left and each Popen.__exit__ closes its end of the pipes
PipelineWait(r) ==
    /\ prep_pc[r] = "waiting"
    /\ \A st \in processes(procs[r]) : procs[r][st].state = "exited"
    /\ prep_pc' = [prep_pc EXCEPT ![r] = "exiting"]
    /\ prep_err' = [prep_err EXCEPT ![r] =
                        IF \E st \in processes(procs[r]) : procs[r][st].rc # 0
                        THEN "PrepareContentEx" ELSE "none"]
    /\ pl_closed' = TRUE
    /\ UNCHANGED <<hostVars, content, age_recipient, target, procs, lines,
                   pl_todo, pl_pipe>>
    /\ UNCHANGED otherThanPipeline

\* each Popen.__exit__ has waited for its process: prepare ends
PipelineEnd(r) ==
    /\ prep_pc[r] = "exiting"
    /\ \A st \in Spawned(procs[r]) : procs[r][st].state = "exited"
    /\ prep_pc' = [prep_pc EXCEPT ![r] =
                       IF prep_err[r] = "none" THEN "done" ELSE "failed"]
    /\ UNCHANGED <<hostVars, content, age_recipient, target, prep_err, procs,
                   lines>>
    /\ UNCHANGED pipelineVars
    /\ UNCHANGED otherThanPipeline

PipelineNext ==
    \/ \E r \in FirstRun : Construct(r)
    \/ \E r \in FirstRun : PrepareStart(r)
    \/ \E r \in FirstRun : PrepareYield(r)
    \/ \E r \in FirstRun : PrepareDrained(r)
    \/ \E r \in FirstRun, st \in Stages : StageWrites(r, st)
    \/ \E r \in FirstRun, st \in Stages, code \in ExitCodes :
          StageEnds(r, st, code)
    \/ \E r \in FirstRun, st \in Stages : BrokenPipe(r, st)
    \/ \E r \in FirstRun : PipelineWait(r)
    \/ \E r \in FirstRun : PipelineEnd(r)

InitPipeline ==
    PipelineInit /\ ResolverIdle /\ UploadIdle /\ StorageIdle /\ RoundsIdle
    /\ ProcessIdle

\* the stages and the interpreter are scheduled as long as they can step
SpecPipeline ==
    InitPipeline /\ [][PipelineNext]_vars /\ WF_vars(PipelineNext)

\* prepare has returned or raised
PipelineEnded(r) == prep_pc[r] \in {"init_failed", "failed", "done"}

\* the stage is stopped in a write to a full pipe that no stage reads
BlockedOnUnreadPipe(r, st) ==
    /\ procs[r][st].state = "running"
    /\ procs[r][st].stdout = "PIPE"
    /\ HasOutput(procs[r], st)
    /\ pl_pipe[OutPipe(st)] = PipeCapacity
    /\ Readers(procs[r], OutPipe(st)) = {}

\* C29: in no configuration is prepare left waiting for an exit status
\* while a stage is stopped for good in a write to a pipe that nobody reads.
C29_NoStageBlockedForever ==
    \A r \in FirstRun :
        ~ /\ prep_pc[r] = "waiting"
          /\ \E st \in Stages : BlockedOnUnreadPipe(r, st)
          /\ ~ENABLED PipelineNext

\* C29, as termination: with stages that end once their input is exhausted
\* and their output written, prepare eventually returns or raises.
C29_PrepareEnds == <>(\A r \in FirstRun : PipelineEnded(r))

(***************************************************************************)
(* main.main and main.process: one run of the program, from the listing of *)
(* the snapshots to sys.exit.                                              *)
(***************************************************************************)

otherThanProcess ==
    <<sanitizeVars, namingVars, prefixVars, storedVars, roundsVars,
      pipelineVars>>

\* what of PrepareContent the steps of process itself leave alone
prepareRunVars ==
    <<which_btrfs, which_pv, which_age, age_recipient, prep_pc, prep_err,
      procs, lines>>

\* the values of --upload-size-limit: below and above the largest file
SizeLimits == {1, MaxChunks + 1}

\* the snapshots of the subvolume, oldest first
Lineages ==
    {SubSeq([i \in 1..NumSnapshots |-> i], 1, k) : k \in 0..NumSnapshots}

\* what only_stored may return for the snapshots
StoredSubLists(snaps) ==
    {SelectSeq(snaps, LAMBDA x : x \in stored) : stored \in SUBSET Range(snaps)}

\* business.compute_snapshot_to_upload: the next unit to archive, the first
\* of the units of compute_snapshot_to_archive, or no unit
compute_snapshot_to_upload(snaps, arch) ==
    LET r == compute_snapshot_to_archive(snaps, arch) IN
    [error |-> r.error,
     unit |-> IF r.error = "none" /\ r.units # <<>>
              THEN Head(r.units) ELSE NotAUnit]

\* mutant: the tests of the size and of dry_run are lost
after_prepare_untested(size) == "ask_uploading"

\* process after the preparation: the test of the size, then of dry_run
after_prepare(size) ==
    IF size > upload_size_limit THEN "FileIsTooLarge"
    ELSE IF dry_run THEN "return"
    ELSE "ask_uploading"

ProcessInit ==
    /\ snapshots \in Lineages
    /\ archived \in StoredSubLists(snapshots)
    /\ gen_pc = "created" /\ pending = <<>> /\ yielded = <<>>
    /\ raised = "none"
    /\ dir_exists = TRUE
    /\ which_btrfs \in BOOLEAN
    /\ which_pv \in BOOLEAN
    /\ which_age \in BOOLEAN
    /\ content = NotAUnit
    /\ age_recipient \in BOOLEAN
    /\ target = [exists |-> FALSE, data |-> 0, creator |-> 0]
    /\ prep_pc = [r \in Runs |-> "new"]
    /\ prep_err = [r \in Runs |-> "none"]
    /\ procs = [r \in Runs |-> [st \in Stages |-> NoProcess]]
    /\ lines = [r \in Runs |-> 0]
    /\ is_file = TRUE
    /\ container_exists \in BOOLEAN
    /\ up_pc = "created" /\ up_raised = "none"
    /\ will_fail = TRUE /\ transfered = 0
    /\ progress = <<>> /\ results = <<>>
    /\ stream = "none" /\ swift_calls = <<>>
    /\ main_pc = "start"
    /\ dry_run \in BOOLEAN
    /\ upload_size_limit \in SizeLimits
    /\ filesize = -1 /\ status = 0 /\ main_raised = "none"
    /\ uploaded_msg = FALSE /\ interrupted = FALSE

\* process goes on to the next step
GoOn(pc) ==
    /\ main_pc' = pc
    /\ UNCHANGED <<status, main_raised, target, dir_exists>>

\* process is left, by a return or by an exception: the with statement
\* removes the temporary directory and what it holds, main sets status and
\* calls sys.exit
Leave(exc) ==
    /\ main_pc' = "exited"
    /\ main_raised' = exc
    /\ status' = IF exc = "none" THEN 0 ELSE -1
    /\ target' = [exists |-> FALSE, data |-> 0, creator |-> 0]
    /\ dir_exists' = FALSE

\* the snapshots are listed, the archived ones looked for, the unit to
\* upload computed
ProcessStart(listed) ==
    /\ main_pc = "start"
    /\ LET r == compute_snapshot_to_upload(snapshots, archived) IN
         \/ /\ snapshots = <<>>
            /\ Leave("none")
            /\ UNCHANGED content
         \/ /\ snapshots # <<>> /\ ~listed
            /\ Leave("SwiftError")
            /\ UNCHANGED content
         \/ /\ snapshots # <<>> /\ listed /\ r.error # "none"
            /\ Leave(r.error)
            /\ UNCHANGED content
         \/ /\ snapshots # <<>> /\ listed /\ r.error = "none"
            /\ r.unit = NotAUnit
            /\ Leave("none")
            /\ UNCHANGED content
         \/ /\ snapshots # <<>> /\ listed /\ r.error = "none"
            /\ r.unit # NotAUnit
            /\ content' = r.unit
            /\ GoOn("ask_preparing")
    /\ UNCHANGED <<dry_run, upload_size_limit, filesize, uploaded_msg,
                   interrupted>>
    /\ UNCHANGED <<resolverVars, prepareRunVars, uploadVars>>
    /\ UNCHANGED otherThanProcess

\* _ask_preparing: the answer of the user, or the default
ProcessAskPreparing(consent) ==
    /\ main_pc = "ask_preparing"
    /\ \/ consent /\ GoOn("preparing")
       \/ ~consent /\ Leave("none")
    /\ UNCHANGED <<dry_run, upload_size_limit, filesize, uploaded_msg,
                   interrupted>>
    /\ UNCHANGED <<resolverVars, content, prepareRunVars, uploadVars>>
    /\ UNCHANGED otherThanProcess

\* _prepare_snapshot_to_upload: the constructor, then the for loop over
\* preparator.prepare()
ProcessConstruct == main_pc = "preparing" /\ \E r \in FirstRun : Construct(r)

ProcessPrepareStart ==
    main_pc = "preparing" /\ \E r \in FirstRun : PrepareStart(r)

ProcessPrepareYield ==
    main_pc = "preparing" /\ \E r \in FirstRun : PrepareYield(r)

ProcessPrepareDrained ==
    main_pc = "preparing" /\ \E r \in FirstRun : PrepareDrained(r)

ProcessPrepareFinish ==
    main_pc = "preparing" /\ \E r \in FirstRun : PrepareFinish(r)

ProcessStageWrite ==
    main_pc = "preparing"
    /\ \E r \in FirstRun, st \in Stages : StageWrite(r, st)

ProcessStageExit ==
    main_pc = "preparing"
    /\ \E r \in FirstRun, st \in Stages, code \in ExitCodes :
          StageExit(r, st, code)

\* KeyboardInterrupt while the stages run, raised in the for loop of
\* _prepare_snapshot_to_upload or inside prepare.  No statement of the
\* program signals the stages and Popen.__exit__ does not kill them: the
\* stages that got the signal themselves end, the others go on
Interrupt(r, signalled) ==
    /\ main_pc = "preparing"
    /\ prep_pc[r] \in {"draining", "waiting"}
    /\ signalled \subseteq {st \in Stages : procs[r][st].state = "running"}
    /\ procs' = [procs EXCEPT ![r] =
                    [st \in Stages |->
                        IF st \in signalled /\ procs[r][st].state = "running"
                        THEN [procs[r][st] EXCEPT !.state = "exited", !.rc = 1]
                        ELSE procs[r][st]]]
    /\ prep_pc' = [prep_pc EXCEPT ![r] = "failed"]
    /\ prep_err' = [prep_err EXCEPT ![r] = "KeyboardInterrupt"]
    /\ interrupted' = TRUE
    /\ UNCHANGED <<main_pc, dry_run, upload_size_limit, filesize, status,
                   main_raised, uploaded_msg>>
    /\ UNCHANGED <<resolverVars, hostVars, content, age_recipient, target,
                   lines, uploadVars>>
    /\ UNCHANGED otherThanProcess

\* the constructor or prepare raised: the exception leaves process
ProcessPrepareFailed(r) ==
    /\ main_pc = "preparing"
    /\ prep_pc[r] \in {"init_failed", "failed"}
    /\ Leave(prep_err[r])
    /\ UNCHANGED <<dry_run, upload_size_limit, filesize, uploaded_msg,
                   interrupted>>
    /\ UNCHANGED <<resolverVars, content, prepareRunVars, uploadVars>>
    /\ UNCHANGED otherThanProcess

\* prepare is exhausted: the size of the file is tested, then dry_run
ProcessPrepared(r) ==
    /\ main_pc = "preparing"
    /\ prep_pc[r] = "done"
    /\ filesize' = target.data
    /\ LET next == after_prepare(target.data) IN
         \/ next = "FileIsTooLarge" /\ Leave("FileIsTooLarge")
         \/ next = "return" /\ Leave("none")
         \/ next = "ask_uploading" /\ GoOn("ask_uploading")
    /\ UNCHANGED <<dry_run, upload_size_limit, uploaded_msg, interrupted>>
    /\ UNCHANGED <<resolverVars, content, prepareRunVars, uploadVars>>
    /\ UNCHANGED otherThanProcess

\* _ask_uploading: the answer of the user, or the default
ProcessAskUploading(consent) ==
    /\ main_pc = "ask_uploading"
    /\ \/ consent /\ GoOn("uploading")
       \/ ~consent /\ Leave("none")
    /\ UNCHANGED <<dry_run, upload_size_limit, filesize, uploaded_msg,
                   interrupted>>
    /\ UNCHANGED <<resolverVars, content, prepareRunVars, uploadVars>>
    /\ UNCHANGED otherThanProcess

\* for transferred in upload(filepath=filepath, ...)
ProcessUploadStart == main_pc = "uploading" /\ UploadStart

ProcessUploadResult ==
    main_pc = "uploading" /\ Len(results) < MaxRunResults
    /\ \E r \in Results : UploadResult(r)

ProcessUploadEnd == main_pc = "uploading" /\ UploadEnd

\* KeyboardInterrupt in the for loop over upload
InterruptUpload ==
    /\ main_pc = "uploading"
    /\ up_pc \in {"suspended", "running"}
    /\ up_pc' = "raised"
    /\ up_raised' = "KeyboardInterrupt"
    /\ interrupted' = TRUE
    /\ UNCHANGED <<main_pc, dry_run, upload_size_limit, filesize, status,
                   main_raised, uploaded_msg>>
    /\ UNCHANGED <<is_file, container_exists, will_fail, transfered, progress,
                   results, stream, swift_calls>>
    /\ UNCHANGED <<resolverVars, prepareVars>>
    /\ UNCHANGED otherThanProcess

\* upload is exhausted: "Uploaded ..." is printed and process returns
ProcessUploaded ==
    /\ main_pc = "uploading"
    /\ up_pc = "exhausted"
    /\ uploaded_msg' = TRUE
    /\ Leave("none")
    /\ UNCHANGED <<dry_run, upload_size_limit, filesize, interrupted>>
    /\ UNCHANGED <<resolverVars, content, prepareRunVars, uploadVars>>
    /\ UNCHANGED otherThanProcess

\* upload raised: the exception leaves process
ProcessUploadFailed ==
    /\ main_pc = "uploading"
    /\ up_pc = "raised"
    /\ Leave(up_raised)
    /\ UNCHANGED <<dry_run, upload_size_limit, filesize, uploaded_msg,
                   interrupted>>
    /\ UNCHANGED <<resolverVars, content, prepareRunVars, uploadVars>>
    /\ UNCHANGED otherThanProcess

ProcessNext ==
    \/ \E listed \in BOOLEAN : ProcessStart(listed)
    \/ \E consent \in BOOLEAN : ProcessAskPreparing(consent)
    \/ ProcessConstruct
    \/ ProcessPrepareStart
    \/ ProcessPrepareYield
    \/ ProcessPrepareDrained
    \/ ProcessPrepareFinish
    \/ ProcessStageWrite
    \/ ProcessStageExit
    \/ \E r \in FirstRun, signalled \in SUBSET Stages : Interrupt(r, signalled)
    \/ \E r \in FirstRun : ProcessPrepareFailed(r)
    \/ \E r \in FirstRun : ProcessPrepared(r)
    \/ \E consent \in BOOLEAN : ProcessAskUploading(consent)
    \/ ProcessUploadStart
    \/ ProcessUploadResult
    \/ ProcessUploadEnd
    \/ InterruptUpload
    \/ ProcessUploaded
    \/ ProcessUploadFailed

InitProcess ==
    ProcessInit /\ StorageIdle /\ RoundsIdle /\ PipelineIdle

SpecProcess == InitProcess /\ [][ProcessNext]_vars

\* the stages of the run are spawned and prepare has not ended
PipelineActive(r) == prep_pc[r] \in {"draining", "waiting"}

\* upload has started and has not ended
UploadActive == up_pc \in {"suspended", "running"}

\* upload has been called and stepped
UploadInvoked == up_pc # "created" \/ swift_calls # <<>>

\* C21: in a run the pipeline and the upload are never active together; the
\* upload of the unit starts only after its pipeline was driven to the end
\* with every stage successful; when the preparation fails, upload is never
\* invoked and the run ends without another unit.
C21_UploadOnlyAfterSuccessfulPipeline ==
    \A r \in FirstRun :
        /\ ~(PipelineActive(r) /\ UploadActive)
        /\ UploadInvoked
             => /\ prep_pc[r] = "done"
                /\ \A st \in Spawned(procs[r]) :
                       procs[r][st].state = "exited" /\ procs[r][st].rc = 0
        /\ prep_err[r] # "none" => ~UploadInvoked
        /\ (prep_err[r] # "none" /\ main_pc # "preparing")
             => main_pc = "exited" /\ status # 0

\* C22: when an interrupt arrives while the pipeline runs, no stage of the
\* unit is left running once control has left prepare, no success is
\* reported and the exit status is not zero.
C22_InterruptTerminatesStages ==
    \A r \in FirstRun :
        /\ (interrupted /\ prep_err[r] = "KeyboardInterrupt")
             => \A st \in Stages : procs[r][st].state # "running"
        /\ interrupted => ~uploaded_msg
        /\ (interrupted /\ main_pc = "exited") => status # 0

\* C23: when a stage exits non-zero and prepare fails with
\* PrepareContentEx, the target file written so far stays on disk, and it
\* is never given to upload.
C23_PartialFileLeftInPlace ==
    \A r \in FirstRun :
        (prep_pc[r] = "failed" /\ prep_err[r] = "PrepareContentEx")
        => /\ target.exists /\ target.creator = r
           /\ ~UploadInvoked

\* C24: with dry_run set upload is never invoked, whatever the snapshots,
\* the archived ones and the answers; nor is it when the prepared file is
\* larger than the upload size limit: FileIsTooLarge is raised.
C24_NoUploadInDryRunNorOverLimit ==
    /\ dry_run => ~UploadInvoked /\ ~uploaded_msg
    /\ filesize > upload_size_limit
         => /\ ~UploadInvoked /\ ~uploaded_msg
            /\ main_pc = "exited" /\ main_raised = "FileIsTooLarge"
            /\ status # 0

\* a dry run that prepared a file within the limit, and returned
C24_Witness ==
    /\ dry_run /\ main_pc = "exited"
    /\ filesize >= 0 /\ filesize <= upload_size_limit
    /\ status = 0

\* a file over the limit, not in a dry run
C24_TooLargeWitness ==
    /\ ~dry_run /\ filesize > upload_size_limit
    /\ main_raised = "FileIsTooLarge"

=============================================================================
